---- MODULE Spec2Model ----
(***************************************************************************)
(* A model of the skill package manager: the tarball extractor and its     *)
(* path-safety check, the HTTP archive fetch (download + extract) and the  *)
(* SkillManager operations (install, installAll, uninstall, update, link). *)
(*                                                                         *)
(* Path strings are sequences of one-character strings, so that            *)
(* normalize/join/resolve/split are computed the way node:path computes    *)
(* them and not assumed.                                                   *)
(***************************************************************************)
EXTENDS Integers, Sequences, FiniteSets, TLC

\* ------------------------------------------------------------------------
\* Bounds
\* ------------------------------------------------------------------------
\* longest entry name enumerated for the pure isPathSafe check
MaxNameLen == 5

\* ------------------------------------------------------------------------
\* Strings
\* ------------------------------------------------------------------------
Chars == {"a", "/", ".", " "}

StringsUpTo(n) == UNION {[1..k -> Chars] : k \in 0..n}

DotDot == <<".", ".">>

Dot == <<".">>

Slash == <<"/">>

Last(s) == s[Len(s)]

StartsWith(s, prefix) ==
  /\ Len(s) >= Len(prefix)
  /\ SubSeq(s, 1, Len(prefix)) = prefix

\* String.prototype.trim() === '' : every character is whitespace
TrimIsEmpty(s) == \A i \in 1..Len(s) : s[i] = " "

\* String.prototype.split('/')
RECURSIVE Split(_)
Split(s) ==
  IF s = <<>> THEN << <<>> >>
  ELSE LET rest == Split(Tail(s))
       IN IF Head(s) = "/"
          THEN << <<>> >> \o rest
          ELSE << <<Head(s)>> \o Head(rest) >> \o Tail(rest)

\* Array.prototype.join('/')
RECURSIVE JoinSegs(_)
JoinSegs(segs) ==
  IF segs = <<>> THEN <<>>
  ELSE IF Len(segs) = 1 THEN Head(segs)
  ELSE Head(segs) \o Slash \o JoinSegs(Tail(segs))

\* ------------------------------------------------------------------------
\* node:path (posix)
\* ------------------------------------------------------------------------
\* normalizeString: the segment stack left after dropping '' and '.' and
\* resolving '..' against the previous segment
RECURSIVE NormStack(_, _, _)
NormStack(segs, stack, allowAboveRoot) ==
  IF segs = <<>> THEN stack
  ELSE LET seg == Head(segs)
           next == IF seg = <<>> \/ seg = Dot THEN stack
                   ELSE IF seg = DotDot
                        THEN IF stack # <<>> /\ Last(stack) # DotDot
                             THEN SubSeq(stack, 1, Len(stack) - 1)
                             ELSE IF allowAboveRoot THEN Append(stack, seg)
                                  ELSE stack
                        ELSE Append(stack, seg)
       IN NormStack(Tail(segs), next, allowAboveRoot)

normalizeString(s, allowAboveRoot) == NormStack(Split(s), <<>>, allowAboveRoot)

isAbsolute(s) == s # <<>> /\ Head(s) = "/"

normalize(s) ==
  IF s = <<>> THEN Dot
  ELSE LET abs == isAbsolute(s)
           trailing == Last(s) = "/"
           body == JoinSegs(normalizeString(s, ~abs))
       IN IF body = <<>>
          THEN IF abs THEN Slash ELSE IF trailing THEN <<".", "/">> ELSE Dot
          ELSE (IF abs THEN Slash ELSE <<>>) \o body
               \o (IF trailing THEN Slash ELSE <<>>)

join(a, b) ==
  LET joined == IF a = <<>> THEN b
                ELSE IF b = <<>> THEN a
                ELSE a \o Slash \o b
  IN IF joined = <<>> THEN Dot ELSE normalize(joined)

\* process.cwd() of the running command
Cwd == <<"/", "w">>

\* the segments of path.resolve(p)
resolveSegs(p) ==
  LET full == IF isAbsolute(p) THEN p
              ELSE IF p = <<>> THEN Cwd
              ELSE Cwd \o Slash \o p
  IN normalizeString(full, FALSE)

resolve(p) == Slash \o JoinSegs(resolveSegs(p))

dirname(p) ==
  IF p = <<>> THEN Dot
  ELSE LET body == IF Len(p) > 1 /\ Last(p) = "/"
                   THEN SubSeq(p, 1, Len(p) - 1) ELSE p
           slashes == {i \in 1..Len(body) : body[i] = "/"}
       IN IF slashes = {} THEN Dot
          ELSE LET k == CHOOSE i \in slashes : \A j \in slashes : j <= i
               IN IF k = 1 THEN Slash ELSE SubSeq(body, 1, k - 1)

\* ------------------------------------------------------------------------
\* isPathSafe
\* ------------------------------------------------------------------------
isPathSafe(installDir, entryName) ==
  IF entryName = <<>> \/ TrimIsEmpty(entryName) THEN FALSE
  ELSE LET normalizedName == normalize(entryName)
       IN IF isAbsolute(normalizedName) THEN FALSE
          ELSE IF normalizedName = Dot THEN FALSE
          ELSE IF \E i \in 1..Len(Split(entryName)) :
                     Split(entryName)[i] = DotDot THEN FALSE
          ELSE LET resolvedInstallDir == resolve(installDir)
                   resolvedEntryPath == resolve(join(installDir, normalizedName))
               IN StartsWith(resolvedEntryPath, resolvedInstallDir \o Slash)

\* ------------------------------------------------------------------------
\* State
\* ------------------------------------------------------------------------
VARIABLES
  \* isPathSafe applied to one input
  pDir, pEntry, pResult,
  \* extractTarballBuffer: implementation, inputs, position, promise, disk
  xImpl, xDir, xArchive, xIdx, xStatus, disk,
  \* downloadAndExtract run by concurrent commands over one cache directory:
  \* archive layout, cache directory tree, the command that last truncated
  \* the download file, and per command its position,
  \* the items it still has to move and the directory it moves them from,
  \* whether a write stream's open is still to happen, and its timeout timer
  fLayout, cfs, fOpener, fpc, fItems, fBase, fPending, fTimer,
  \* SkillManager: its mode, the remote's tags, skills.json (present or not,
  \* and its skills), the cache, the install directory, skills.lock, the
  \* running command, the number of commands and remote publications so far,
  \* and the history the properties speak about:
  \* completed fetches per key, the last successful operation per name, the
  \* names ever linked
  mGlobal, tags, cfgExists, manifest, cache, installed, lock, op,
  cmds, fetched, hist, tainted,
  \* skills.lock on disk while one command rewrites it and another reads
  \* it: the file, the ledger being saved, the writer's position, the text
  \* it has still to write, what the reader last read
  lfFile, lfData, lfPc, lfLeft, lfSeen,
  \* the copy into the install path: the cache entry, the skill directory,
  \* the skill directory as the running install found it, the position
  cpSrc, cpDest, cpPrev, cpPc,
  \* range resolution: the tags the remote lists, the requested range, the
  \* versions that parsed, the outcome, the position
  rTags, rRange, rVersions, rResult, rPc,
  \* an archive URL reference: its tokens, what parseUrl made of it, the
  \* version parseVersion made of that, the position
  uRef, uInfo, uSpec, uPc,
  \* extractArchive and the entry of downloadAndExtract: the archive file
  \* name, the format the caller supplied, which of the two runs, whether
  \* destDir exists and existed at the call, whether a download was started,
  \* the error thrown, the position
  aName, aFormat, aMode, aDest, aDest0, aStarted, aError, aPc,
  \* a command that consults skills.lock: the file it finds, the name it
  \* asks for, the operation, the ledger it loaded, the outcome, the position
  gFile, gName, gOp, gData, gOut, gPc

pathVars == <<pDir, pEntry, pResult>>

extractVars == <<xImpl, xDir, xArchive, xIdx, xStatus, disk>>

fetchVars == <<fLayout, cfs, fOpener, fpc, fItems, fBase, fPending, fTimer>>

mgrVars == <<mGlobal, tags, cfgExists, manifest, cache, installed, lock, op,
             cmds, fetched, hist, tainted>>

ledgerVars == <<lfFile, lfData, lfPc, lfLeft, lfSeen>>

copyVars == <<cpSrc, cpDest, cpPrev, cpPc>>

resolveVars == <<rTags, rRange, rVersions, rResult, rPc>>

urlVars == <<uRef, uInfo, uSpec, uPc>>

archiveVars == <<aName, aFormat, aMode, aDest, aDest0, aStarted, aError, aPc>>

loadVars == <<gFile, gName, gOp, gData, gOut, gPc>>

vars == <<pathVars, extractVars, fetchVars, mgrVars, ledgerVars, copyVars, resolveVars, urlVars, archiveVars, loadVars>>

nonPathVars == <<extractVars, fetchVars, mgrVars, ledgerVars, copyVars, resolveVars, urlVars, archiveVars, loadVars>>

nonExtractVars == <<pathVars, fetchVars, mgrVars, ledgerVars, copyVars, resolveVars, urlVars, archiveVars, loadVars>>

nonFetchVars == <<pathVars, extractVars, mgrVars, ledgerVars, copyVars, resolveVars, urlVars, archiveVars, loadVars>>

nonMgrVars == <<pathVars, extractVars, fetchVars, ledgerVars, copyVars, resolveVars, urlVars, archiveVars, loadVars>>

nonLedgerVars == <<pathVars, extractVars, fetchVars, mgrVars, copyVars, resolveVars, urlVars, archiveVars, loadVars>>

nonCopyVars == <<pathVars, extractVars, fetchVars, mgrVars, ledgerVars, resolveVars, urlVars, archiveVars, loadVars>>

nonResolveVars == <<pathVars, extractVars, fetchVars, mgrVars, ledgerVars, copyVars, urlVars, archiveVars, loadVars>>

nonUrlVars == <<pathVars, extractVars, fetchVars, mgrVars, ledgerVars, copyVars, resolveVars, archiveVars, loadVars>>

nonArchiveVars == <<pathVars, extractVars, fetchVars, mgrVars, ledgerVars, copyVars, resolveVars, urlVars, loadVars>>

nonLoadVars == <<pathVars, extractVars, fetchVars, mgrVars, ledgerVars, copyVars, resolveVars, urlVars, archiveVars>>

\* ------------------------------------------------------------------------
\* isPathSafe as a pure function of its two arguments
\* ------------------------------------------------------------------------
\* "/s", "/", "s" (relative to Cwd), "/s/"
PathInstallDirs == { <<"/", "s">>, <<"/">>, <<"s">>, <<"/", "s", "/">> }

PathIdle ==
  /\ pDir = <<>>
  /\ pEntry = <<>>
  /\ pResult = "unset"

CheckPath ==
  /\ pResult = "unset"
  /\ pResult' = IF isPathSafe(pDir, pEntry) THEN "safe" ELSE "unsafe"
  /\ UNCHANGED <<pDir, pEntry, nonPathVars>>

\* ------------------------------------------------------------------------
\* The disk seen by the extractor: resolved path (segments) -> node
\* ------------------------------------------------------------------------
DirNode == [kind |-> "dir", data |-> 0]

FileNode(d) == [kind |-> "file", data |-> d]

Prefixes(segs) == {SubSeq(segs, 1, k) : k \in 0..Len(segs)}

ParentOf(segs) == SubSeq(segs, 1, Len(segs) - 1)

\* root, the working directory /w and a file /a that no archive owns
InitialDisk ==
  (<<>> :> DirNode) @@ (<< <<"w">> >> :> DirNode) @@ (<< <<"a">> >> :> FileNode(99))

existsSync(d, p) == resolveSegs(p) \in DOMAIN d

\* mkdirSync(p, {recursive: true}) throws when a component is a file
MkdirOk(d, p) ==
  \A q \in Prefixes(resolveSegs(p)) : q \in DOMAIN d => d[q].kind = "dir"

mkdirSync(d, p) ==
  [q \in DOMAIN d \cup Prefixes(resolveSegs(p)) |->
     IF q \in DOMAIN d THEN d[q] ELSE DirNode]

\* createWriteStream(p) opens with flag 'w': the parent must be a directory
\* and p must not be a directory
CanOpen(d, p) ==
  LET segs == resolveSegs(p)
  IN /\ segs # <<>>
     /\ ParentOf(segs) \in DOMAIN d
     /\ d[ParentOf(segs)].kind = "dir"
     /\ (segs \in DOMAIN d => d[segs].kind = "file")

\* a write stream that is opened and closed without the entry piped into it
writeFileEmpty(d, p, data) ==
  [q \in DOMAIN d \cup {resolveSegs(p)} |->
     IF q = resolveSegs(p) THEN FileNode(0) ELSE d[q]]

writeFile(d, p, data) ==
  [q \in DOMAIN d \cup {resolveSegs(p)} |->
     IF q = resolveSegs(p) THEN FileNode(data) ELSE d[q]]

\* ------------------------------------------------------------------------
\* extractTarballBuffer
\* ------------------------------------------------------------------------
\* most entries in one archive
MaxEntries == 3

\* "a", "a/a", "../a", "a/../a", "/a", "."
EntryNames ==
  { <<"a">>, <<"a", "/", "a">>, <<".", ".", "/", "a">>,
    <<"a", "/", ".", ".", "/", "a">>, <<"/", "a">>, <<".">> }

\* file and directory entries under every name, symbolic links under two
Entries ==
  [name : EntryNames, type : {"file", "directory"}]
    \cup [name : { <<"a">>, <<".", ".", "/", "a">> }, type : {"symlink"}]

Archives == UNION {[1..k -> Entries] : k \in 0..MaxEntries}

\* "/s" and "s" (relative to Cwd)
ExtractInstallDirs == { <<"/", "s">>, <<"s">> }

\* "guarded": the extractor that validates entry names (with isPathSafe);
\* "plain": the extractor in core/extractor.ts, which joins the raw name
Impls == {"guarded", "plain"}

ExtractIdle ==
  /\ xImpl = "guarded"
  /\ xDir = <<>>
  /\ xArchive = <<>>
  /\ xIdx = 0
  /\ xStatus = "idle"
  /\ disk = InitialDisk

\* the path an entry is written to
EntryPath(impl, installDir, name) ==
  IF impl = "guarded" THEN join(installDir, normalize(name))
  ELSE join(installDir, name)

\* the entries the extractor refuses
Refused(impl, installDir, name) ==
  impl = "guarded" /\ ~isPathSafe(installDir, name)

Running == xStatus = "running" /\ xIdx <= Len(xArchive)

CurEntry == xArchive[xIdx]

CurPath == EntryPath(xImpl, xDir, CurEntry.name)

\* if (!existsSync(installDir)) mkdirSync(installDir, {recursive: true})
ExtractBegin ==
  /\ xStatus = "idle"
  /\ xDir # <<>>
  /\ IF existsSync(disk, xDir)
     THEN /\ xStatus' = "running"
          /\ disk' = disk
     ELSE IF MkdirOk(disk, xDir)
     THEN /\ xStatus' = "running"
          /\ disk' = mkdirSync(disk, xDir)
     ELSE /\ xStatus' = "rejected"
          /\ disk' = disk
  /\ xIdx' = 1
  /\ UNCHANGED <<xImpl, xDir, xArchive, nonExtractVars>>

\* a refused entry handled as a fatal error instead of being skipped
SkipEntryAbort ==
  /\ xStatus' = "rejected"
  /\ UNCHANGED <<xIdx, disk>>

\* the entry fails the path check: stream.resume(); next()
SkipEntry ==
  /\ xIdx' = xIdx + 1
  /\ UNCHANGED <<xStatus, disk>>

EntryRejected ==
  /\ Running
  /\ Refused(xImpl, xDir, CurEntry.name)
  /\ SkipEntry
  /\ UNCHANGED <<xImpl, xDir, xArchive, nonExtractVars>>

\* header.type === 'directory'; a throw of mkdirSync inside the 'entry'
\* listener is caught by nobody: the promise is never settled
EntryDirectory ==
  /\ Running
  /\ ~Refused(xImpl, xDir, CurEntry.name)
  /\ CurEntry.type = "directory"
  /\ IF existsSync(disk, CurPath)
     THEN /\ xIdx' = xIdx + 1
          /\ UNCHANGED <<xStatus, disk>>
     ELSE IF MkdirOk(disk, CurPath)
     THEN /\ xIdx' = xIdx + 1
          /\ disk' = mkdirSync(disk, CurPath)
          /\ UNCHANGED xStatus
     ELSE /\ xStatus' = "crashed"
          /\ UNCHANGED <<xIdx, disk>>
  /\ UNCHANGED <<xImpl, xDir, xArchive, nonExtractVars>>

\* a file entry whose handler calls next() without waiting for the write
\* stream to finish
EntryFileNoWait ==
  /\ Running
  /\ ~Refused(xImpl, xDir, CurEntry.name)
  /\ CurEntry.type = "file"
  /\ xIdx' = xIdx + 1
  /\ UNCHANGED <<xImpl, xDir, xArchive, xStatus, disk, nonExtractVars>>

\* header.type === 'file': parent directory, then the write stream is piped
EntryFile ==
  /\ Running
  /\ ~Refused(xImpl, xDir, CurEntry.name)
  /\ CurEntry.type = "file"
  /\ LET parentDir == dirname(CurPath)
     IN IF existsSync(disk, parentDir)
        THEN /\ xStatus' = "writing"
             /\ disk' = disk
        ELSE IF MkdirOk(disk, parentDir)
        THEN /\ xStatus' = "writing"
             /\ disk' = mkdirSync(disk, parentDir)
        ELSE /\ xStatus' = "crashed"
             /\ disk' = disk
  /\ UNCHANGED <<xImpl, xDir, xArchive, xIdx, nonExtractVars>>

\* writeStream 'finish': next()
WriteFinish ==
  /\ xStatus = "writing"
  /\ CanOpen(disk, CurPath)
  /\ disk' = writeFile(disk, CurPath, xIdx)
  /\ xIdx' = xIdx + 1
  /\ xStatus' = "running"
  /\ UNCHANGED <<xImpl, xDir, xArchive, nonExtractVars>>

\* writeStream 'error': reject(...)
WriteError ==
  /\ xStatus = "writing"
  /\ ~CanOpen(disk, CurPath)
  /\ xStatus' = "rejected"
  /\ UNCHANGED <<xImpl, xDir, xArchive, xIdx, disk, nonExtractVars>>

\* an entry of another type materialised as an empty node at its path
EntryOtherCreated ==
  /\ Running
  /\ ~Refused(xImpl, xDir, CurEntry.name)
  /\ CurEntry.type \notin {"directory", "file"}
  /\ xIdx' = xIdx + 1
  /\ disk' = writeFile(disk, CurPath, 0)
  /\ UNCHANGED <<xImpl, xDir, xArchive, xStatus, nonExtractVars>>

\* any other entry type: stream.resume(); next()
EntryOther ==
  /\ Running
  /\ ~Refused(xImpl, xDir, CurEntry.name)
  /\ CurEntry.type \notin {"directory", "file"}
  /\ xIdx' = xIdx + 1
  /\ UNCHANGED <<xImpl, xDir, xArchive, xStatus, disk, nonExtractVars>>

\* extractor 'finish': resolve()
ExtractFinish ==
  /\ xStatus = "running"
  /\ xIdx > Len(xArchive)
  /\ xStatus' = "resolved"
  /\ UNCHANGED <<xImpl, xDir, xArchive, xIdx, disk, nonExtractVars>>


\* ------------------------------------------------------------------------
\* downloadAndExtract into the cache directory
\* ------------------------------------------------------------------------
\* the commands that may run at the same time
Procs == {1, 2}

\* destDir (the cache entry of the key), `${destDir}.extract-temp` and
\* `${destDir}/../${filename}.download`
Dest == <<"D">>

Temp == <<"D.extract-temp">>

Arc == <<"f.download">>

\* the trees an archive can hold: two items at top level, one root
\* directory wrapping them, a single file; and the two-item archive as a
\* server delivers it damaged
Layouts == {"flat", "rooted", "onefile", "damaged"}

ArchiveTree(layout) ==
  IF layout \in {"flat", "damaged"}
  THEN (<<"x">> :> "file") @@ (<<"d">> :> "dir") @@ (<<"d", "y">> :> "file")
  ELSE IF layout = "rooted"
  THEN (<<"r">> :> "dir") @@ (<<"r", "x">> :> "file")
       @@ (<<"r", "d">> :> "dir") @@ (<<"r", "d", "y">> :> "file")
  ELSE (<<"x">> :> "file")

\* the first file tar writes
FirstFile(layout) == IF layout = "rooted" THEN <<"r", "x">> ELSE <<"x">>

IsUnder(q, base) ==
  /\ Len(q) > Len(base)
  /\ SubSeq(q, 1, Len(base)) = base

Rest(q, base) == SubSeq(q, Len(base) + 1, Len(q))

Children(d, base) == {q[Len(base) + 1] : q \in {r \in DOMAIN d : IsUnder(r, base)}}

\* fs.rmSync(p, {recursive: true, force: true})
RemoveTree(d, base) ==
  [q \in {r \in DOMAIN d : r # base /\ ~IsUnder(r, base)} |-> d[q]]

\* ensureDir
EnsureDirIn(d, base) == IF base \in DOMAIN d THEN d ELSE (base :> "dir") @@ d

\* tar -x -C base: every member of the given part of the tree is written
Unpack(d, base, tree) ==
  [q \in DOMAIN d \cup {base \o r : r \in DOMAIN tree} |->
     IF q \in DOMAIN d /\ ~(\E r \in DOMAIN tree : q = base \o r) THEN d[q]
     ELSE tree[Rest(q, base)]]

\* fs.renameSync(src, dst) succeeds unless src is missing, dst is a
\* non-empty directory, or one is a directory and the other is not
CanRename(d, src, dst) ==
  /\ src \in DOMAIN d
  /\ dst \in DOMAIN d =>
       /\ (d[dst] = "dir") = (d[src] = "dir")
       /\ d[dst] = "dir" => Children(d, dst) = {}

Rename(d, src, dst) ==
  LET kept == {q \in DOMAIN d : q # src /\ ~IsUnder(q, src)
                                 /\ q # dst /\ ~IsUnder(q, dst)}
      moved == {q \in DOMAIN d : q = src \/ IsUnder(q, src)}
  IN [q \in kept \cup {dst \o Rest(r, src) : r \in moved} |->
        IF q \in kept THEN d[q] ELSE d[src \o Rest(q, dst)]]

\* CacheManager.get: the key is cached when its directory exists
CacheGet(d) == Dest \in DOMAIN d

FetchIdle ==
  /\ fLayout = "flat"
  /\ cfs = << >>
  /\ fOpener = 0
  /\ fpc = [p \in Procs |-> "idle"]
  /\ fItems = [p \in Procs |-> {}]
  /\ fBase = [p \in Procs |-> <<>>]
  /\ fPending = [p \in Procs |-> FALSE]
  /\ fTimer = [p \in Procs |-> "off"]

Goto(p, label) == fpc' = [fpc EXCEPT ![p] = label]

\* install finds the key uncached and fetches: cache.get(), cache.cache();
\* downloadFile arms the timeout and calls fetch()
FetchStart(p) ==
  /\ fpc[p] = "idle"
  /\ ~CacheGet(cfs)
  /\ fTimer' = [fTimer EXCEPT ![p] = "armed"]
  /\ Goto(p, "fetch")
  /\ UNCHANGED <<fLayout, cfs, fOpener, fItems, fBase, fPending, nonFetchVars>>

\* downloadFile: fetch() answers, clearTimeout, createWriteStream(destPath)
\* truncates
DownloadOpen(p) ==
  /\ fpc[p] = "fetch"
  /\ fTimer' = [fTimer EXCEPT ![p] = "off"]
  /\ cfs' = (Arc :> "partial") @@ cfs
  /\ fOpener' = p
  /\ Goto(p, "stream")
  /\ UNCHANGED <<fLayout, fItems, fBase, fPending, nonFetchVars>>

\* downloadFile: the response has no body; createWriteStream(destPath) has
\* been called, its open is still to happen, and the function throws
DownloadEmptyBody(p) ==
  /\ fpc[p] = "fetch"
  /\ fTimer' = [fTimer EXCEPT ![p] = "off"]
  /\ fPending' = [fPending EXCEPT ![p] = TRUE]
  /\ Goto(p, "dlcatch")
  /\ UNCHANGED <<fLayout, cfs, fOpener, fItems, fBase, nonFetchVars>>

\* the open of a write stream nobody uses any more is carried out: the
\* file is created or truncated
OpenLands(p) ==
  /\ fPending[p]
  /\ fPending' = [fPending EXCEPT ![p] = FALSE]
  /\ cfs' = (Arc :> "partial") @@ cfs
  /\ fOpener' = p
  /\ UNCHANGED <<fLayout, fpc, fItems, fBase, fTimer, nonFetchVars>>

\* downloadFile: the timeout elapses while fetch() is pending and aborts it
DownloadTimeout(p) ==
  /\ fpc[p] = "fetch"
  /\ fTimer[p] = "armed"
  /\ fTimer' = [fTimer EXCEPT ![p] = "off"]
  /\ Goto(p, "dlcatch")
  /\ UNCHANGED <<fLayout, cfs, fOpener, fItems, fBase, fPending, nonFetchVars>>

\* a timer left armed by a fetch() that threw elapses: abort() of a
\* settled request does nothing
TimerLapse(p) ==
  /\ fpc[p] # "fetch"
  /\ fTimer[p] = "armed"
  /\ fTimer' = [fTimer EXCEPT ![p] = "off"]
  /\ UNCHANGED <<fLayout, cfs, fOpener, fpc, fItems, fBase, fPending, nonFetchVars>>

\* downloadFile: fetch() throws (the timer stays armed) or answers with
\* !response.ok (after clearTimeout)
DownloadRefused(p) ==
  /\ fpc[p] = "fetch"
  /\ \E answered \in BOOLEAN :
       fTimer' = IF answered THEN [fTimer EXCEPT ![p] = "off"] ELSE fTimer
  /\ Goto(p, "dlcatch")
  /\ UNCHANGED <<fLayout, cfs, fOpener, fItems, fBase, fPending, nonFetchVars>>

\* downloadFile: pipeline(nodeStream, fileStream) completes; the file under
\* the download name is complete if this command was the last to truncate it
DownloadDone(p) ==
  /\ fpc[p] = "stream"
  /\ cfs' = IF Arc \in DOMAIN cfs /\ fOpener = p
            THEN (Arc :> "full") @@ cfs ELSE cfs
  /\ Goto(p, "ensureDest")
  /\ UNCHANGED <<fLayout, fOpener, fItems, fBase, fPending, fTimer, nonFetchVars>>

\* downloadFile: pipeline rejects part-way
DownloadBroken(p) ==
  /\ fpc[p] = "stream"
  /\ Goto(p, "dlcatch")
  /\ UNCHANGED <<fLayout, cfs, fOpener, fItems, fBase, fPending, fTimer, nonFetchVars>>

\* downloadFile catch: unlink the partial download, rethrow
DownloadCatch(p) ==
  /\ fpc[p] = "dlcatch"
  /\ cfs' = RemoveTree(cfs, Arc)
  /\ fOpener' = 0
  /\ Goto(p, "finally_failed")
  /\ UNCHANGED <<fLayout, fItems, fBase, fPending, fTimer, nonFetchVars>>

\* extractArchive: ensureDir(destDir)
EnsureDest(p) ==
  /\ fpc[p] = "ensureDest"
  /\ cfs' = EnsureDirIn(cfs, Dest)
  /\ Goto(p, "ensureTemp")
  /\ UNCHANGED <<fLayout, fOpener, fItems, fBase, fPending, fTimer, nonFetchVars>>

\* extractTar: ensureDir(tempExtractDir)
EnsureTemp(p) ==
  /\ fpc[p] = "ensureTemp"
  /\ cfs' = EnsureDirIn(cfs, Temp)
  /\ Goto(p, "tar")
  /\ UNCHANGED <<fLayout, fOpener, fItems, fBase, fPending, fTimer, nonFetchVars>>

\* extractTar: tar -xzf archive -C temp, on a complete archive
TarOk(p) ==
  /\ fpc[p] = "tar"
  /\ fLayout # "damaged"
  /\ Arc \in DOMAIN cfs /\ cfs[Arc] = "full"
  /\ Temp \in DOMAIN cfs
  /\ cfs' = Unpack(cfs, Temp, ArchiveTree(fLayout))
  /\ Goto(p, "readdir")
  /\ UNCHANGED <<fLayout, fOpener, fItems, fBase, fPending, fTimer, nonFetchVars>>

\* extractTar: tar fails (archive missing, truncated or damaged, temp
\* directory gone), after writing nothing or the first file; the catch
\* rethrows
TarFails(p) ==
  /\ fpc[p] = "tar"
  /\ \/ fLayout = "damaged"
     \/ ~(Arc \in DOMAIN cfs /\ cfs[Arc] = "full" /\ Temp \in DOMAIN cfs)
  /\ \/ cfs' = cfs
     \/ /\ Arc \in DOMAIN cfs /\ Temp \in DOMAIN cfs
        /\ cfs' = Unpack(cfs, Temp,
                         [r \in Prefixes(FirstFile(fLayout)) \ {<<>>} |->
                            ArchiveTree(fLayout)[r]])
  /\ Goto(p, "finally_failed")
  /\ UNCHANGED <<fLayout, fOpener, fItems, fBase, fPending, fTimer, nonFetchVars>>

\* extractTar: readdirSync(temp); a single directory is unwrapped
ReadTemp(p) ==
  /\ fpc[p] = "readdir"
  /\ IF Temp \notin DOMAIN cfs
     THEN /\ Goto(p, "finally_failed")
          /\ UNCHANGED <<fItems, fBase>>
     ELSE LET extractedItems == Children(cfs, Temp)
              singleItem == Append(Temp, CHOOSE i \in extractedItems : TRUE)
          IN IF Cardinality(extractedItems) = 1 /\ cfs[singleItem] = "dir"
             THEN /\ fItems' = [fItems EXCEPT ![p] = Children(cfs, singleItem)]
                  /\ fBase' = [fBase EXCEPT ![p] = singleItem]
                  /\ Goto(p, "move")
             ELSE /\ fItems' = [fItems EXCEPT ![p] = extractedItems]
                  /\ fBase' = [fBase EXCEPT ![p] = Temp]
                  /\ Goto(p, "move")
  /\ UNCHANGED <<fLayout, cfs, fOpener, fPending, fTimer, nonFetchVars>>

\* extractTar: one renameSync(src, dest) of the loop; a throw is rethrown
MoveItem(p) ==
  /\ fpc[p] = "move"
  /\ \E item \in fItems[p] :
       LET src == Append(fBase[p], item)
           dst == Append(Dest, item)
       IN IF CanRename(cfs, src, dst) /\ Dest \in DOMAIN cfs
          THEN /\ cfs' = Rename(cfs, src, dst)
               /\ fItems' = [fItems EXCEPT ![p] = @ \ {item}]
               /\ UNCHANGED fpc
          ELSE /\ Goto(p, "finally_failed")
               /\ UNCHANGED <<cfs, fItems>>
  /\ UNCHANGED <<fLayout, fOpener, fBase, fPending, fTimer, nonFetchVars>>

\* extractTar: remove(tempExtractDir) after the loop
RemoveTemp(p) ==
  /\ fpc[p] = "move"
  /\ fItems[p] = {}
  /\ cfs' = RemoveTree(cfs, Temp)
  /\ Goto(p, "finally_ok")
  /\ UNCHANGED <<fLayout, fOpener, fItems, fBase, fPending, fTimer, nonFetchVars>>

\* downloadAndExtract finally: unlink the temporary archive
Finally(p) ==
  /\ fpc[p] \in {"finally_ok", "finally_failed"}
  /\ cfs' = RemoveTree(cfs, Arc)
  /\ fOpener' = 0
  /\ Goto(p, IF fpc[p] = "finally_ok" THEN "returned" ELSE "thrown")
  /\ UNCHANGED <<fLayout, fItems, fBase, fPending, fTimer, nonFetchVars>>

\* ------------------------------------------------------------------------
\* SkillManager: references, resolver, cache, lock and manifest
\* ------------------------------------------------------------------------
\* highest tag a repository can publish
MaxTags == 2

\* commands and remote publications in one history
MaxCmds == 3

\* parsed references: a repository, a skill inside a monorepo, a second
\* repository
SrcTool == [owner |-> "x", repo |-> "tool", subPath |-> << >>]

SrcMono == [owner |-> "y", repo |-> "mono", subPath |-> <<"skills", "tool">>]

SrcFmt == [owner |-> "z", repo |-> "fmt", subPath |-> << >>]

Sources == {SrcTool, SrcMono, SrcFmt}

RepoOf(src) == <<src.owner, src.repo>>

Repos == {RepoOf(src) : src \in Sources}

LatestSpec == [type |-> "latest", value |-> 0]

\* a reference string that does not parse
BadRef == [ok |-> FALSE, src |-> SrcTool, spec |-> LatestSpec]

MkRef(src, spec) == [ok |-> TRUE, src |-> src, spec |-> spec]

ExactSpec(v) == [type |-> "exact", value |-> v]

\* the references a command is given: every tag and latest of one
\* repository, latest of the monorepo skill, the first tag of the third,
\* and a malformed one
Refs ==
  {MkRef(SrcTool, ExactSpec(v)) : v \in 1..MaxTags}
    \cup {MkRef(SrcTool, LatestSpec), MkRef(SrcMono, LatestSpec),
          MkRef(SrcFmt, ExactSpec(1)), BadRef}

\* the directory name of a skill: basename(subPath) or the repo
skillNameOf(src) ==
  IF src.subPath # << >> THEN Last(src.subPath) ELSE src.repo

\* names a command can be given
Names == {"tool", "fmt", "a"}

\* names a local directory is linked under
LinkNames == {"tool", "fmt"}

\* GitResolver.resolve: an exact tag must exist, latest is the highest tag
CanResolve(ref, t) ==
  /\ ref.ok
  /\ ref.spec.type = "exact" => ref.spec.value <= t[RepoOf(ref.src)]

ResolvedRef(ref, t) ==
  IF ref.spec.type = "exact" THEN ref.spec.value ELSE t[RepoOf(ref.src)]

\* the cache key of a resolved reference and the commit behind it
KeyOf(src, version) == <<src.owner, src.repo, version>>

CommitOf(src, version) == <<"commit", src.owner, src.repo, version>>

Keys == {<<r[1], r[2], v>> : r \in Repos, v \in 1..MaxTags}

\* what copyTo leaves at skillPath, and what createSymlink leaves there
DirOf(src, version) == [kind |-> "dir", content |-> <<src, version>>]

LinkNode == [kind |-> "link", content |-> << >>]

\* the entry lockSkill writes
LockEntry(src, version, commit) ==
  [source |-> src, version |-> version, resolved |-> RepoOf(src),
   commit |-> commit]

Drop(f, k) == [x \in DOMAIN f \ {k} |-> f[x]]

Put(f, k, v) == (k :> v) @@ f

\* skills.json as the user may have written it: empty, declared names that
\* differ from the derived ones, declared names equal to the derived ones
ManifestChoices ==
  { << >>,
    ("a" :> MkRef(SrcTool, ExactSpec(1))) @@ ("b" :> MkRef(SrcMono, LatestSpec)),
    ("tool" :> MkRef(SrcTool, LatestSpec)) @@ ("fmt" :> MkRef(SrcFmt, ExactSpec(1))) }

\* Object.entries(skills) in the order the file lists them
Orderings(m) ==
  LET n == Cardinality(DOMAIN m)
  IN {[i \in 1..n |-> <<f[i], m[f[i]]>>] :
        f \in {g \in [1..n -> DOMAIN m] :
                 \A i, j \in 1..n : i # j => g[i] # g[j]}}

IdleOp ==
  [kind |-> "none", pc |-> "idle", queue |-> << >>, ref |-> BadRef,
   force |-> FALSE, save |-> FALSE, name |-> "", version |-> 0,
   hit |-> FALSE, trail |-> << >>, done |-> << >>, attempted |-> 0,
   total |-> 0, decl |-> "", okDecl |-> {}]

MgrIdle ==
  /\ mGlobal = FALSE
  /\ tags = [r \in Repos |-> 1]
  /\ cfgExists = FALSE
  /\ manifest = << >>
  /\ cache = << >>
  /\ installed = << >>
  /\ lock = << >>
  /\ cmds = 0
  /\ op = IdleOp
  /\ fetched = [k \in Keys |-> 0]
  /\ hist = [n \in Names |-> "none"]
  /\ tainted = {}

Looping(o) == o.kind \in {"installAll", "updateAll"}

\* install(ref, {force, save}) is entered
StartInstall(o, ref, force, save) ==
  [o EXCEPT !.pc = "resolve", !.ref = ref, !.force = force, !.save = save,
            !.name = "", !.version = 0, !.hit = FALSE, !.trail = << >>]

\* what a name looks like on disk and in the lock
Snapshot(inst, lk, n) ==
  [dir |-> IF n \in DOMAIN inst THEN <<inst[n]>> ELSE << >>,
   lock |-> IF n \in DOMAIN lk THEN <<lk[n]>> ELSE << >>]

\* install returned a skill: a loop records it and goes on, a single
\* command ends
Returned(o, inst, lk) ==
  IF Looping(o)
  THEN [o EXCEPT !.pc = "loop",
                 !.done = Put(o.done, o.name, Snapshot(inst, lk, o.name)),
                 !.okDecl = o.okDecl \cup {o.decl}]
  ELSE IdleOp

\* install threw: a loop logs it and goes on, a single command ends
Threw(o) == IF Looping(o) THEN [o EXCEPT !.pc = "loop"] ELSE IdleOp

\* ------------------------------------------------------------------------
\* SkillManager: commands and the steps of install
\* ------------------------------------------------------------------------
\* `install <ref>` (the command passes save && !isGlobal)
CmdInstall(ref, force, save) ==
  /\ op.pc = "idle"
  /\ cmds < MaxCmds
  /\ cmds' = cmds + 1
  /\ op' = StartInstall([IdleOp EXCEPT !.kind = "install"], ref, force,
                        save /\ ~mGlobal)
  /\ UNCHANGED <<mGlobal, tags, cfgExists, manifest, cache, installed, lock,
                 fetched, hist, tainted, nonMgrVars>>

\* `install` with no argument: installAll over the entries of skills.json
CmdInstallAll(force) ==
  /\ op.pc = "idle"
  /\ cmds < MaxCmds
  /\ cmds' = cmds + 1
  /\ ~mGlobal
  /\ cfgExists
  /\ DOMAIN manifest # {}
  /\ \E q \in Orderings(manifest) :
       op' = [IdleOp EXCEPT !.kind = "installAll", !.pc = "loop",
                            !.queue = q, !.force = force, !.total = Len(q)]
  /\ UNCHANGED <<mGlobal, tags, cfgExists, manifest, cache, installed, lock,
                 fetched, hist, tainted, nonMgrVars>>

\* as CmdUpdate, but moving the skill to the newest tag of its source
\* whatever its declaration says
CmdUpdateToNewest(name) ==
  /\ op.pc = "idle"
  /\ cmds < MaxCmds
  /\ cmds' = cmds + 1
  /\ ~mGlobal
  /\ cfgExists
  /\ IF name \in DOMAIN manifest
     THEN /\ op' = StartInstall([IdleOp EXCEPT !.kind = "update"],
                                MkRef(manifest[name].src, LatestSpec),
                                TRUE, FALSE)
     ELSE op' = op
  /\ UNCHANGED <<mGlobal, tags, cfgExists, manifest, cache, installed, lock,
                 fetched, hist, tainted, nonMgrVars>>

\* `update <name>`: a forced install of the declared reference, or nothing
\* when the name is not declared
CmdUpdate(name) ==
  /\ op.pc = "idle"
  /\ cmds < MaxCmds
  /\ cmds' = cmds + 1
  /\ ~mGlobal
  /\ cfgExists
  /\ IF name \in DOMAIN manifest
     THEN /\ op' = StartInstall([IdleOp EXCEPT !.kind = "update"],
                                manifest[name], TRUE, FALSE)
     ELSE op' = op
  /\ UNCHANGED <<mGlobal, tags, cfgExists, manifest, cache, installed, lock,
                 fetched, hist, tainted, nonMgrVars>>

\* `update` with no argument
CmdUpdateAll ==
  /\ op.pc = "idle"
  /\ cmds < MaxCmds
  /\ cmds' = cmds + 1
  /\ ~mGlobal
  /\ cfgExists
  /\ \E q \in Orderings(manifest) :
       op' = [IdleOp EXCEPT !.kind = "updateAll", !.pc = "loop",
                            !.queue = q, !.force = TRUE, !.total = Len(q)]
  /\ UNCHANGED <<mGlobal, tags, cfgExists, manifest, cache, installed, lock,
                 fetched, hist, tainted, nonMgrVars>>

\* the loop of installAll / update takes the next entry
LoopNext ==
  /\ op.pc = "loop"
  /\ op.queue # << >>
  /\ op' = StartInstall([op EXCEPT !.queue = Tail(op.queue),
                                   !.attempted = op.attempted + 1,
                                   !.decl = Head(op.queue)[1]],
                        Head(op.queue)[2], op.force, FALSE)
  /\ UNCHANGED <<mGlobal, tags, cfgExists, manifest, cache, installed, lock,
                 fetched, hist, tainted, cmds, nonMgrVars>>

\* the loop has no entry left
LoopEnd ==
  /\ op.pc = "loop"
  /\ op.queue = << >>
  /\ op' = IdleOp
  /\ UNCHANGED <<mGlobal, tags, cfgExists, manifest, cache, installed, lock,
                 fetched, hist, tainted, cmds, nonMgrVars>>

\* as I_ResolveFail, but with the install directory emptied before the
\* reference is resolved
I_ResolveFailWipes ==
  /\ op.pc = "resolve"
  /\ op' = Threw(op)
  /\ installed' = << >>
  /\ UNCHANGED <<mGlobal, tags, cfgExists, manifest, cache, lock,
                 fetched, hist, tainted, cmds, nonMgrVars>>

\* resolver.resolve(ref) throws: the reference is malformed, the version
\* is not there, or the remote cannot be reached
I_ResolveFail ==
  /\ op.pc = "resolve"
  /\ op' = Threw(op)
  /\ UNCHANGED <<mGlobal, tags, cfgExists, manifest, cache, installed, lock,
                 fetched, hist, tainted, cmds, nonMgrVars>>

\* resolver.resolve(ref) returns; version and skillName are derived
I_ResolveOk ==
  /\ op.pc = "resolve"
  /\ CanResolve(op.ref, tags)
  /\ op' = [op EXCEPT !.pc = "check",
                      !.name = skillNameOf(op.ref.src),
                      !.version = ResolvedRef(op.ref, tags),
                      !.trail = Append(op.trail, "resolve")]
  /\ UNCHANGED <<mGlobal, tags, cfgExists, manifest, cache, installed, lock,
                 fetched, hist, tainted, cmds, nonMgrVars>>

\* as I_Check, but never taking the early return
I_CheckAlwaysProceeds ==
  /\ op.pc = "check"
  /\ op' = [op EXCEPT !.pc = "cacheGet"]
  /\ UNCHANGED <<mGlobal, tags, cfgExists, manifest, cache, installed, lock,
                 fetched, hist, tainted, cmds, nonMgrVars>>

\* the already-installed check: both branches return the installed skill
I_Check ==
  /\ op.pc = "check"
  /\ IF op.name \in DOMAIN installed /\ ~op.force
     THEN /\ op' = Returned(op, installed, lock)
          /\ hist' = [hist EXCEPT ![op.name] = "install"]
     ELSE /\ op' = [op EXCEPT !.pc = "cacheGet"]
          /\ UNCHANGED hist
  /\ UNCHANGED <<mGlobal, tags, cfgExists, manifest, cache, installed, lock,
                 fetched, tainted, cmds, nonMgrVars>>

\* as I_CacheGet, but fetching whether or not the key is cached
I_CacheGetAlwaysFetches ==
  /\ op.pc = "cacheGet"
  /\ op' = [op EXCEPT !.pc = "fetch"]
  /\ UNCHANGED <<mGlobal, tags, cfgExists, manifest, cache, installed, lock,
                 fetched, hist, tainted, cmds, nonMgrVars>>

\* cache.get(parsed, version): a hit is used as it is, a miss is fetched
I_CacheGet ==
  /\ op.pc = "cacheGet"
  /\ IF KeyOf(op.ref.src, op.version) \in DOMAIN cache
     THEN op' = [op EXCEPT !.pc = "remove", !.hit = TRUE,
                           !.trail = Append(op.trail, "cache")]
     ELSE op' = [op EXCEPT !.pc = "fetch"]
  /\ UNCHANGED <<mGlobal, tags, cfgExists, manifest, cache, installed, lock,
                 fetched, hist, tainted, cmds, nonMgrVars>>

\* cache.cache(repoUrl, parsed, version, version) stores the entry
I_FetchOk ==
  /\ op.pc = "fetch"
  /\ LET k == KeyOf(op.ref.src, op.version)
     IN /\ cache' = Put(cache, k, [commit |-> CommitOf(op.ref.src, op.version)])
        /\ fetched' = [fetched EXCEPT ![k] = fetched[k] + 1]
  /\ op' = [op EXCEPT !.pc = "remove", !.trail = Append(op.trail, "cache")]
  /\ UNCHANGED <<mGlobal, tags, cfgExists, manifest, installed, lock,
                 hist, tainted, cmds, nonMgrVars>>

\* cache.cache throws
I_FetchFail ==
  /\ op.pc = "fetch"
  /\ op' = Threw(op)
  /\ UNCHANGED <<mGlobal, tags, cfgExists, manifest, cache, installed, lock,
                 fetched, hist, tainted, cmds, nonMgrVars>>

\* ensureDir(installDir) and remove(skillPath) when it exists
I_Remove ==
  /\ op.pc = "remove"
  /\ installed' = Drop(installed, op.name)
  /\ op' = [op EXCEPT !.pc = "copy"]
  /\ UNCHANGED <<mGlobal, tags, cfgExists, manifest, cache, lock,
                 fetched, hist, tainted, cmds, nonMgrVars>>

\* cache.copyTo(parsed, version, skillPath) resolves
I_CopyOk ==
  /\ op.pc = "copy"
  /\ installed' = Put(installed, op.name, DirOf(op.ref.src, op.version))
  /\ op' = [op EXCEPT !.pc = "record", !.trail = Append(op.trail, "copy")]
  /\ UNCHANGED <<mGlobal, tags, cfgExists, manifest, cache, lock,
                 fetched, hist, tainted, cmds, nonMgrVars>>

\* as I_CopyFail, but install carries on to the lock as if copyTo resolved
I_CopyFailIgnored ==
  /\ op.pc = "copy"
  /\ op' = [op EXCEPT !.pc = "record"]
  /\ UNCHANGED <<mGlobal, tags, cfgExists, manifest, cache, installed, lock,
                 fetched, hist, tainted, cmds, nonMgrVars>>

\* cache.copyTo rejects (the sub-path is not in the content, or I/O)
I_CopyFail ==
  /\ op.pc = "copy"
  /\ op' = Threw(op)
  /\ UNCHANGED <<mGlobal, tags, cfgExists, manifest, cache, installed, lock,
                 fetched, hist, tainted, cmds, nonMgrVars>>

\* as I_Record, but writing the lock and skills.json in global mode too
I_RecordInGlobalToo ==
  /\ op.pc = "record"
  /\ lock' = Put(lock, op.name,
                 LockEntry(op.ref.src, op.version,
                           cache[KeyOf(op.ref.src, op.version)].commit))
  /\ manifest' = IF cfgExists THEN Put(manifest, op.name, op.ref)
                 ELSE manifest
  /\ op' = Returned([op EXCEPT !.trail = Append(op.trail, "lock")],
                    installed, lock')
  /\ hist' = [hist EXCEPT ![op.name] = "install"]
  /\ UNCHANGED <<mGlobal, tags, cfgExists, cache, installed, fetched,
                 tainted, cmds, nonMgrVars>>

\* lockSkill and addSkill (project mode only), then the skill is returned
I_Record ==
  /\ op.pc = "record"
  /\ IF mGlobal
     THEN /\ UNCHANGED <<lock, manifest>>
          /\ op' = Returned(op, installed, lock)
     ELSE /\ lock' = Put(lock, op.name,
                         LockEntry(op.ref.src, op.version,
                                   cache[KeyOf(op.ref.src, op.version)].commit))
          /\ manifest' = IF op.save /\ cfgExists
                         THEN Put(manifest, op.name, op.ref)
                         ELSE manifest
          /\ op' = Returned([op EXCEPT !.trail = Append(op.trail, "lock")],
                            installed, lock')
  /\ hist' = [hist EXCEPT ![op.name] = "install"]
  /\ UNCHANGED <<mGlobal, tags, cfgExists, cache, installed, fetched,
                 tainted, cmds, nonMgrVars>>

\* as Uninstall, but leaving the lock as it is
UninstallKeepsLock(name) ==
  /\ op.pc = "idle"
  /\ cmds < MaxCmds
  /\ cmds' = cmds + 1
  /\ IF name \notin DOMAIN installed
     THEN /\ UNCHANGED <<installed, manifest, hist>>
     ELSE /\ installed' = Drop(installed, name)
          /\ manifest' = IF ~mGlobal /\ cfgExists
                         THEN Drop(manifest, name) ELSE manifest
          /\ hist' = [hist EXCEPT ![name] = "uninstall"]
  /\ UNCHANGED <<mGlobal, tags, cfgExists, cache, lock, op, fetched,
                 tainted, nonMgrVars>>

\* uninstall(name)
Uninstall(name) ==
  /\ op.pc = "idle"
  /\ cmds < MaxCmds
  /\ cmds' = cmds + 1
  /\ IF name \notin DOMAIN installed
     THEN /\ UNCHANGED <<installed, lock, manifest, hist>>
     ELSE /\ installed' = Drop(installed, name)
          /\ lock' = IF ~mGlobal THEN Drop(lock, name) ELSE lock
          /\ manifest' = IF ~mGlobal /\ cfgExists
                         THEN Drop(manifest, name) ELSE manifest
          /\ hist' = [hist EXCEPT ![name] = "uninstall"]
  /\ UNCHANGED <<mGlobal, tags, cfgExists, cache, op, fetched,
                 tainted, nonMgrVars>>

\* link(localPath, name): createSymlink replaces whatever is at the path
Link(name) ==
  /\ op.pc = "idle"
  /\ cmds < MaxCmds
  /\ cmds' = cmds + 1
  /\ installed' = Put(installed, name, LinkNode)
  /\ tainted' = tainted \cup {name}
  /\ UNCHANGED <<mGlobal, tags, cfgExists, manifest, cache, lock, op,
                 fetched, hist, nonMgrVars>>

\* unlink(name): only a symlink is removed
Unlink(name) ==
  /\ op.pc = "idle"
  /\ cmds < MaxCmds
  /\ cmds' = cmds + 1
  /\ IF name \in DOMAIN installed /\ installed[name].kind = "link"
     THEN /\ installed' = Drop(installed, name)
          /\ tainted' = tainted \cup {name}
     ELSE /\ UNCHANGED <<installed, tainted>>
  /\ UNCHANGED <<mGlobal, tags, cfgExists, manifest, cache, lock, op,
                 fetched, hist, nonMgrVars>>

\* the remote publishes its next tag (tags are read by resolve only, so the
\* moments between commands and between loop entries are the ones that count)
PublishTag(r) ==
  /\ op.pc \in {"idle", "loop"}
  /\ cmds < MaxCmds
  /\ cmds' = cmds + 1
  /\ tags[r] < MaxTags
  /\ tags' = [tags EXCEPT ![r] = tags[r] + 1]
  /\ UNCHANGED <<mGlobal, cfgExists, manifest, cache, installed, lock,
                 op, fetched, hist, tainted, nonMgrVars>>

\* ------------------------------------------------------------------------
\* skills.lock on disk: writeJson against a concurrent readJson
\* ------------------------------------------------------------------------
LedgerNames == {"tool", "fmt"}

\* the ledgers that can be saved: the set of names with an entry
Ledgers == SUBSET LedgerNames

\* JSON.stringify(data, null, indent) + '\n', one token per line of text
Stringify(l) ==
  <<"{">> \o (IF "fmt" \in l THEN <<"fmt">> ELSE << >>)
          \o (IF "tool" \in l THEN <<"tool">> ELSE << >>) \o <<"}">>

NoFile == [exists |-> FALSE, text |-> << >>]

FileOf(t) == [exists |-> TRUE, text |-> t]

LedgerIdle ==
  /\ lfFile = NoFile
  /\ lfData = {}
  /\ lfPc = "idle"
  /\ lfLeft = << >>
  /\ lfSeen = NoFile

\* lockSkill(name, entry) / remove(name) change the ledger in memory and
\* save it with writeJson
LedgerMutate(n, add) ==
  /\ lfPc = "idle"
  /\ lfData' = IF add THEN lfData \cup {n} ELSE lfData \ {n}
  /\ lfPc' = "open"
  /\ UNCHANGED <<lfFile, lfLeft, lfSeen, nonLedgerVars>>

\* writeFileSync opens the path with flag 'w': created or truncated
WriteOpen ==
  /\ lfPc = "open"
  /\ lfFile' = FileOf(<< >>)
  /\ lfLeft' = Stringify(lfData)
  /\ lfPc' = "write"
  /\ UNCHANGED <<lfData, lfSeen, nonLedgerVars>>

\* writeFileSync writes the text, in one or several write calls
WriteChunk ==
  /\ lfPc = "write"
  /\ lfLeft # << >>
  /\ \E k \in 1..Len(lfLeft) :
       /\ lfFile' = FileOf(lfFile.text \o SubSeq(lfLeft, 1, k))
       /\ lfLeft' = SubSeq(lfLeft, k + 1, Len(lfLeft))
  /\ UNCHANGED <<lfData, lfPc, lfSeen, nonLedgerVars>>

\* writeFileSync closes the file and returns
WriteClose ==
  /\ lfPc = "write"
  /\ lfLeft = << >>
  /\ lfPc' = "idle"
  /\ UNCHANGED <<lfFile, lfData, lfLeft, lfSeen, nonLedgerVars>>

\* another command loads the ledger: readFileSync of the whole file
LedgerRead ==
  /\ lfSeen' = lfFile
  /\ UNCHANGED <<lfFile, lfData, lfPc, lfLeft, nonLedgerVars>>


\* ------------------------------------------------------------------------
\* The copy of a cache entry into the install path
\* ------------------------------------------------------------------------
\* file contents are 1..MaxContent
MaxContent == 2

\* a directory tree: relative path (sequence of names) -> node, the root
\* included; a directory that is absent is the empty function
NoTree == << >>

TreePaths == { <<"f">>, <<"d">>, <<"d", "f">>, <<".git">> }

TreeNodes == {DirNode} \cup {FileNode(c) : c \in 1..MaxContent}

\* every tree over TreePaths in which each path's parent is a directory of
\* the tree, .git is a directory and f a file
Trees ==
  {(<< >> :> DirNode) @@ t :
     t \in {u \in UNION {[ps -> TreeNodes] : ps \in SUBSET TreePaths} :
              /\ \A q \in DOMAIN u :
                   Len(q) > 1 =>
                     ParentOf(q) \in DOMAIN u /\ u[ParentOf(q)] = DirNode
              /\ <<".git">> \in DOMAIN u => u[<<".git">>] = DirNode
              /\ <<"f">> \in DOMAIN u => u[<<"f">>] # DirNode}}

\* the names copyTo leaves out
Exclude == {".git"}

Done(t) == [ok |-> TRUE, t |-> t]

Failed(t) == [ok |-> FALSE, t |-> t]

exists(t, p) == p \in DOMAIN t

\* if (!exists(dirPath)) fs.mkdirSync(dirPath, {recursive: true})
ensureDir(t, p) ==
  IF exists(t, p) THEN Done(t)
  ELSE IF \E q \in Prefixes(p) : q \in DOMAIN t /\ t[q].kind = "file"
       THEN Failed(t)
       ELSE Done([q \in DOMAIN t \cup Prefixes(p) |->
                    IF q \in DOMAIN t THEN t[q] ELSE DirNode])

\* fs.copyFileSync(srcPath, destPath)
copyFileSync(s, t, p) ==
  IF \/ (p \in DOMAIN t /\ t[p].kind = "dir")
     \/ ParentOf(p) \notin DOMAIN t
     \/ t[ParentOf(p)].kind # "dir"
  THEN Failed(t)
  ELSE Done([q \in DOMAIN t \cup {p} |-> IF q = p THEN s[p] ELSE t[q]])

\* fs.readdirSync(src): the names directly under p
Readdir(s, p) == {q[Len(p) + 1] : q \in {r \in DOMAIN s : Len(r) = Len(p) + 1 /\ IsUnder(r, p)}}

\* copyDir(src/p, dest/p, {exclude}): s is the source tree, t the
\* destination tree
RECURSIVE copyDir(_, _, _, _), copyEntries(_, _, _, _, _)
copyDir(s, t, p, exclude) ==
  LET made == ensureDir(t, p)
  IN IF ~made.ok THEN made
     ELSE copyEntries(s, made.t, p, Readdir(s, p), exclude)

\* the loop of copyDir over the entries that are left
copyEntries(s, t, p, names, exclude) ==
  IF names = {} THEN Done(t)
  ELSE LET n == CHOOSE x \in names : TRUE
           q == p \o <<n>>
           r == IF n \in exclude THEN Done(t)
                ELSE IF s[q].kind = "dir" THEN copyDir(s, t, q, exclude)
                ELSE copyFileSync(s, t, q)
       IN IF ~r.ok THEN r
          ELSE copyEntries(s, r.t, p, names \ {n}, exclude)

\* a removal that leaves the directory as it is
removeKeeps(t) == t

\* remove(targetPath): fs.rmSync(targetPath, {recursive: true, force: true})
remove(t) == NoTree

CopyIdle ==
  /\ cpSrc = NoTree
  /\ cpDest = NoTree
  /\ cpPrev = NoTree
  /\ cpPc = "idle"

\* install has its cache entry and reaches the copy
CopyBegin ==
  /\ cpPc = "idle"
  /\ cpPc' = "remove"
  /\ cpPrev' = cpDest
  /\ UNCHANGED <<cpSrc, cpDest, nonCopyVars>>

\* if (exists(skillPath)) remove(skillPath)
CopyRemove ==
  /\ cpPc = "remove"
  /\ cpDest' = IF exists(cpDest, << >>) THEN remove(cpDest) ELSE cpDest
  /\ cpPc' = "copy"
  /\ UNCHANGED <<cpSrc, cpPrev, nonCopyVars>>

\* await this.cache.copyTo(parsed, version, skillPath), no sub-path
CopyTo ==
  /\ cpPc = "copy"
  /\ LET r == copyDir(cpSrc, cpDest, << >>, Exclude)
     IN /\ cpDest' = r.t
        /\ cpPc' = IF r.ok THEN "done" ELSE "thrown"
  /\ UNCHANGED <<cpSrc, cpPrev, nonCopyVars>>

\* install returns
CopyReturn ==
  /\ cpPc = "done"
  /\ cpPc' = "idle"
  /\ cpPrev' = NoTree
  /\ UNCHANGED <<cpSrc, cpDest, nonCopyVars>>

\* the next install or update resolves to another version, with its own
\* cache entry
CopyOtherVersion ==
  /\ cpPc = "idle"
  /\ cpSrc' \in Trees \ {cpSrc}
  /\ UNCHANGED <<cpDest, cpPrev, cpPc, nonCopyVars>>


\* ------------------------------------------------------------------------
\* Version resolution of a semver range
\* ------------------------------------------------------------------------
\* most tags the remote lists
MaxTagCount == 4

\* a tag: whether it parses as a semantic version, major.minor.patch, and
\* whether it carries a prerelease suffix
Ver(maj, min, pat) == [ok |-> TRUE, v |-> <<maj, min, pat>>, pre |-> FALSE]

Pre(maj, min, pat) == [ok |-> TRUE, v |-> <<maj, min, pat>>, pre |-> TRUE]

\* a tag such as "nightly"
JunkTag == [ok |-> FALSE, v |-> <<0, 0, 0>>, pre |-> FALSE]

NoMatch == [ok |-> FALSE, v |-> <<0, 0, 0>>, pre |-> TRUE]

TagPool ==
  { Ver(0, 9, 0), Ver(1, 0, 0), Ver(1, 2, 0), Pre(1, 3, 0), Ver(2, 0, 0),
    Pre(2, 0, 0), Ver(2, 3, 3), Ver(3, 0, 0), Pre(3, 0, 0), JunkTag }

TagSets == {ts \in SUBSET TagPool : Cardinality(ts) <= MaxTagCount}

\* ^1.0.0, ^1.2.0, ^2.0.0
CaretRanges == { <<1, 0, 0>>, <<1, 2, 0>>, <<2, 0, 0>> }

\* compareMain: -1, 0 or 1
RECURSIVE CompareMain(_, _)
CompareMain(a, b) ==
  IF a = << >> THEN 0
  ELSE IF Head(a) < Head(b) THEN -1
  ELSE IF Head(a) > Head(b) THEN 1
  ELSE CompareMain(Tail(a), Tail(b))

\* compare: at equal major.minor.patch a prerelease is the lower version
Compare(a, b) ==
  LET m == CompareMain(a.v, b.v)
  IN IF m # 0 THEN m
     ELSE IF a.pre /\ ~b.pre THEN -1
     ELSE IF ~a.pre /\ b.pre THEN 1
     ELSE 0

\* the upper end of a caret range: the next value of the leftmost
\* component that is not zero
CaretUpper(r) ==
  IF r[1] > 0 THEN <<r[1] + 1, 0, 0>>
  ELSE IF r[2] > 0 THEN <<0, r[2] + 1, 0>>
  ELSE <<0, 0, r[3] + 1>>

\* satisfies, with prereleases admitted
SatisfiesWithPrerelease(t, r) ==
  /\ CompareMain(t.v, r) >= 0
  /\ CompareMain(t.v, CaretUpper(r)) < 0

\* satisfies(version, "^r"): >=r and below the upper end; a prerelease
\* version satisfies no range that names no prerelease
Satisfies(t, r) ==
  /\ ~t.pre
  /\ CompareMain(t.v, r) >= 0
  /\ CompareMain(t.v, CaretUpper(r)) < 0

\* maxSatisfying(versions, range)
MaxSatisfying(versions, r) ==
  LET fit == {t \in versions : Satisfies(t, r)}
  IN IF fit = {} THEN NoMatch
     ELSE CHOOSE t \in fit : \A u \in fit : Compare(u, t) <= 0

ResolveIdle ==
  /\ rTags = {}
  /\ rRange = <<0, 0, 0>>
  /\ rVersions = {}
  /\ rResult = NoMatch
  /\ rPc = "idle"

\* list the remote's tags and keep those that parse as semantic versions
ListTags ==
  /\ rPc = "start"
  /\ rVersions' = {t \in rTags : t.ok}
  /\ rPc' = "listed"
  /\ UNCHANGED <<rTags, rRange, rResult, nonResolveVars>>

\* the highest version that satisfies the range, or NoMatchingVersion
SelectVersion ==
  /\ rPc = "listed"
  /\ rResult' = MaxSatisfying(rVersions, rRange)
  /\ rPc' = "resolved"
  /\ UNCHANGED <<rTags, rRange, rVersions, nonResolveVars>>


\* ------------------------------------------------------------------------
\* HttpResolver: the version of an archive URL reference
\* ------------------------------------------------------------------------
\* a reference is a sequence of tokens: the URL up to the file name, the
\* skill name, optionally a separator and a version, the extension, and
\* optionally "@" and a version
UrlBase == "https://example.com/"

SkillTokens == {"skill", "my_skill"}

SepTokens == {"-", "_"}

VersionTokens == {"v1.0.0", "v2.0.0", "1.0.0"}

ExtTokens == {".tar.gz", ".tgz", ".tar", ".zip"}

SuffixTokens == VersionTokens \cup {"latest"}

Undefined == "undefined"

UrlRefs ==
  {<<UrlBase, n>> \o fv \o <<e>> \o sfx :
     n \in SkillTokens,
     fv \in {<< >>} \cup {<<sp, v>> : sp \in SepTokens, v \in VersionTokens},
     e \in ExtTokens,
     sfx \in {<< >>} \cup {<<"@", v>> : v \in SuffixTokens}}

\* the position of the last "@", 0 when there is none
LastAt(r) ==
  IF \E i \in 1..Len(r) : r[i] = "@"
  THEN CHOOSE i \in 1..Len(r) : r[i] = "@" /\ \A j \in (i + 1)..Len(r) : r[j] # "@"
  ELSE 0

\* the version in the file name: a separator and a version before the
\* extension
FileVersion(url) ==
  IF /\ Len(url) >= 5
     /\ url[Len(url) - 1] \in VersionTokens
     /\ url[Len(url) - 2] \in SepTokens
  THEN url[Len(url) - 1]
  ELSE Undefined

\* a choice that puts the file name's version first
pickFileVersionFirst(explicit, fromName) ==
  IF fromName # Undefined THEN fromName ELSE explicit

\* version = explicitVersion || fileVersion
pickVersion(explicit, fromName) ==
  IF explicit # Undefined THEN explicit ELSE fromName

\* parseUrl(ref)
parseUrl(r) ==
  LET at == LastAt(r)
      url == IF at > 0 THEN SubSeq(r, 1, at - 1) ELSE r
      explicit == IF at > 0 /\ at < Len(r) THEN r[at + 1] ELSE Undefined
  IN [url |-> url,
      skillName |-> url[2],
      format |-> url[Len(url)],
      version |-> pickVersion(explicit, FileVersion(url))]

\* parseVersion(version)
parseVersion(v) ==
  IF v = Undefined THEN [type |-> "exact", value |-> "latest"]
  ELSE IF v = "latest" THEN [type |-> "latest", value |-> "latest"]
  ELSE [type |-> "exact", value |-> v]

NoInfo == [url |-> << >>, skillName |-> "", format |-> "", version |-> Undefined]

NoSpec == [type |-> "", value |-> ""]

UrlIdle ==
  /\ uRef = << >>
  /\ uInfo = NoInfo
  /\ uSpec = NoSpec
  /\ uPc = "idle"

\* resolve(ref): const httpInfo = this.parseUrl(ref)
UrlParse ==
  /\ uPc = "start"
  /\ uInfo' = parseUrl(uRef)
  /\ uPc' = "parsed"
  /\ UNCHANGED <<uRef, uSpec, nonUrlVars>>

\* resolve(ref): const versionSpec = this.parseVersion(httpInfo.version)
UrlVersion ==
  /\ uPc = "parsed"
  /\ uSpec' = parseVersion(uInfo.version)
  /\ uPc' = "done"
  /\ UNCHANGED <<uRef, uInfo, nonUrlVars>>


\* ------------------------------------------------------------------------
\* extractArchive and downloadAndExtract: the archive format
\* ------------------------------------------------------------------------
\* a.tar.gz, a.TAR.GZ, a.tgz, a.Tgz, a.zip, a.ZIP, a.tar, a.gz, a, atar,
\* a.zip.a, .zip
FileNames ==
  { <<"a", ".", "t", "a", "r", ".", "g", "z">>,
    <<"a", ".", "T", "A", "R", ".", "G", "Z">>,
    <<"a", ".", "t", "g", "z">>,
    <<"a", ".", "T", "g", "z">>,
    <<"a", ".", "z", "i", "p">>,
    <<"a", ".", "Z", "I", "P">>,
    <<"a", ".", "t", "a", "r">>,
    <<"a", ".", "g", "z">>,
    <<"a">>,
    <<"a", "t", "a", "r">>,
    <<"a", ".", "z", "i", "p", ".", "a">>,
    <<".", "z", "i", "p">> }

NoFormat == << >>

FormatTarGz == <<".", "t", "a", "r", ".", "g", "z">>

FormatTgz == <<".", "t", "g", "z">>

FormatZip == <<".", "z", "i", "p">>

FormatTar == <<".", "t", "a", "r">>

\* ArchiveFormat
Formats == {FormatTarGz, FormatTgz, FormatZip, FormatTar}

LowerOf(c) ==
  CASE c = "A" -> "a"
    [] c = "G" -> "g"
    [] c = "I" -> "i"
    [] c = "P" -> "p"
    [] c = "R" -> "r"
    [] c = "T" -> "t"
    [] c = "Z" -> "z"
    [] OTHER -> c

toLowerCase(n) == [i \in 1..Len(n) |-> LowerOf(n[i])]

endsWith(n, e) ==
  /\ Len(n) >= Len(e)
  /\ SubSeq(n, Len(n) - Len(e) + 1, Len(n)) = e

\* detectArchiveFormat(filePath)
detectArchiveFormat(n) ==
  LET lower == toLowerCase(n)
  IN IF endsWith(lower, FormatTarGz) THEN FormatTarGz
     ELSE IF endsWith(lower, FormatTgz) THEN FormatTgz
     ELSE IF endsWith(lower, FormatZip) THEN FormatZip
     ELSE IF endsWith(lower, FormatTar) THEN FormatTar
     ELSE NoFormat

ArchiveIdle ==
  /\ aName = << >>
  /\ aFormat = NoFormat
  /\ aMode = "extract"
  /\ aDest = FALSE
  /\ aDest0 = FALSE
  /\ aStarted = FALSE
  /\ aError = "none"
  /\ aPc = "idle"

\* the format in use: the caller's, else the detected one
FormatInUse == IF aFormat # NoFormat THEN aFormat ELSE detectArchiveFormat(aName)

\* extractArchive with the destination directory made before the format is
\* looked at
ArchiveDetectAfterEnsureDir ==
  /\ aPc = "start"
  /\ aDest' = (aMode = "extract" \/ aDest)
  /\ IF FormatInUse = NoFormat
     THEN /\ aPc' = "thrown"
          /\ aError' = "UnableToDetect"
     ELSE /\ aPc' = "detected"
          /\ UNCHANGED aError
  /\ UNCHANGED <<aName, aFormat, aMode, aDest0, aStarted, nonArchiveVars>>

\* const detectedFormat = format || detectArchiveFormat(archivePath);
\* if (!detectedFormat) throw ...   (the same test opens downloadAndExtract)
ArchiveDetect ==
  /\ aPc = "start"
  /\ IF FormatInUse = NoFormat
     THEN /\ aPc' = "thrown"
          /\ aError' = "UnableToDetect"
     ELSE /\ aPc' = "detected"
          /\ UNCHANGED aError
  /\ UNCHANGED <<aName, aFormat, aMode, aDest, aDest0, aStarted,
                 nonArchiveVars>>

\* downloadAndExtract: await downloadFile(url, tempArchive, options)
ArchiveDownload ==
  /\ aPc = "detected"
  /\ aMode = "download"
  /\ ~aStarted
  /\ aStarted' = TRUE
  /\ \/ aPc' = "detected" /\ UNCHANGED aError
     \/ aPc' = "thrown" /\ aError' = "DownloadFailed"
  /\ UNCHANGED <<aName, aFormat, aMode, aDest, aDest0, nonArchiveVars>>

\* extractArchive: ensureDir(destDir), then the extractor for the format
ArchiveEnsureDir ==
  /\ aPc = "detected"
  /\ aMode = "download" => aStarted
  /\ aDest' = TRUE
  /\ aPc' = "extracting"
  /\ UNCHANGED <<aName, aFormat, aMode, aDest0, aStarted, aError,
                 nonArchiveVars>>

\* extractTar / extractZip resolves or throws
ArchiveExtract ==
  /\ aPc = "extracting"
  /\ \/ aPc' = "returned" /\ UNCHANGED aError
     \/ aPc' = "thrown" /\ aError' = "ExtractFailed"
  /\ UNCHANGED <<aName, aFormat, aMode, aDest, aDest0, aStarted,
                 nonArchiveVars>>


\* ------------------------------------------------------------------------
\* Loading skills.lock
\* ------------------------------------------------------------------------
\* longest text of a skills.lock file, in tokens
MaxText == 3

LedgerTokens == {"{", "}"} \cup LedgerNames

\* no file, or a file of any text: a saved ledger, a truncated one (as a
\* reader can find it while it is rewritten), anything a user left there
LockFiles ==
  {NoFile} \cup {FileOf(t) : t \in UNION {[1..k -> LedgerTokens] : k \in 0..MaxText}}

Thrown == [ok |-> FALSE, data |-> {}]

Parsed(d) == [ok |-> TRUE, data |-> d]

\* JSON.parse(content): an object is an opening brace, keys, a closing brace
JsonParse(t) ==
  IF /\ Len(t) >= 2
     /\ t[1] = "{"
     /\ t[Len(t)] = "}"
     /\ \A i \in 2..(Len(t) - 1) : t[i] \in LedgerNames
  THEN Parsed({t[i] : i \in 2..(Len(t) - 1)})
  ELSE Thrown

\* a reader that returns whatever names it finds in the text
readJsonSalvaging(f) ==
  IF ~f.exists THEN Thrown
  ELSE Parsed({f.text[i] : i \in 1..Len(f.text)} \cap LedgerNames)

\* readJson(filePath): readFileSync throws when there is no file,
\* JSON.parse when the text is no JSON
readJson(f) ==
  IF ~f.exists THEN Thrown ELSE JsonParse(f.text)

\* LockManager.load: a missing or unreadable file is an empty ledger
load(f) ==
  IF ~f.exists THEN Parsed({})
  ELSE IF readJson(f).ok THEN readJson(f) ELSE Parsed({})

LoadOps == {"info", "list", "install"}

NoOutcome == [raised |-> FALSE, found |-> FALSE]

LoadIdle ==
  /\ gFile = NoFile
  /\ gName = ""
  /\ gOp = "none"
  /\ gData = Thrown
  /\ gOut = NoOutcome
  /\ gPc = "idle"

\* lockManager.get(name) loads the ledger first
LoadLedger ==
  /\ gPc = "start"
  /\ gData' = load(gFile)
  /\ gPc' = "loaded"
  /\ UNCHANGED <<gFile, gName, gOp, gOut, nonLoadVars>>

\* getInfo, getInstalledSkill (for list) and install's installed-check use
\* what get returned; none of them catches what it throws
LoadConsult ==
  /\ gPc = "loaded"
  /\ gOut' = [raised |-> ~gData.ok, found |-> gData.ok /\ gName \in gData.data]
  /\ gPc' = "done"
  /\ UNCHANGED <<gFile, gName, gOp, gData, nonLoadVars>>

\* ------------------------------------------------------------------------
\* Specifications
\* ------------------------------------------------------------------------
InitPath ==
  /\ LoadIdle
  /\ ArchiveIdle
  /\ UrlIdle
  /\ ResolveIdle
  /\ CopyIdle
  /\ LedgerIdle
  /\ pDir \in PathInstallDirs
  /\ pEntry \in StringsUpTo(MaxNameLen)
  /\ pResult = "unset"
  /\ ExtractIdle
  /\ FetchIdle
  /\ MgrIdle

NextPath == CheckPath

SpecPath == InitPath /\ [][NextPath]_vars

InitExtract ==
  /\ LoadIdle
  /\ ArchiveIdle
  /\ UrlIdle
  /\ ResolveIdle
  /\ CopyIdle
  /\ LedgerIdle
  /\ PathIdle
  /\ xImpl \in Impls
  /\ xDir \in ExtractInstallDirs
  /\ xArchive \in Archives
  /\ xIdx = 0
  /\ xStatus = "idle"
  /\ disk = InitialDisk
  /\ FetchIdle
  /\ MgrIdle

NextExtract ==
  \/ ExtractBegin
  \/ EntryRejected
  \/ EntryDirectory
  \/ EntryFile
  \/ WriteFinish
  \/ WriteError
  \/ EntryOther
  \/ ExtractFinish

SpecExtract == InitExtract /\ [][NextExtract]_vars

InitFetch ==
  /\ LoadIdle
  /\ ArchiveIdle
  /\ UrlIdle
  /\ ResolveIdle
  /\ CopyIdle
  /\ LedgerIdle
  /\ PathIdle
  /\ ExtractIdle
  /\ MgrIdle
  /\ fLayout \in Layouts
  /\ cfs = << >>
  /\ fOpener = 0
  /\ fpc = [p \in Procs |-> "idle"]
  /\ fItems = [p \in Procs |-> {}]
  /\ fBase = [p \in Procs |-> <<>>]
  /\ fPending = [p \in Procs |-> FALSE]
  /\ fTimer = [p \in Procs |-> "off"]

NextFetch ==
  \E p \in Procs :
    \/ FetchStart(p)
    \/ DownloadOpen(p)
    \/ DownloadEmptyBody(p)
    \/ OpenLands(p)
    \/ DownloadTimeout(p)
    \/ TimerLapse(p)
    \/ DownloadRefused(p)
    \/ DownloadDone(p)
    \/ DownloadBroken(p)
    \/ DownloadCatch(p)
    \/ EnsureDest(p)
    \/ EnsureTemp(p)
    \/ TarOk(p)
    \/ TarFails(p)
    \/ ReadTemp(p)
    \/ MoveItem(p)
    \/ RemoveTemp(p)
    \/ Finally(p)

SpecFetch == InitFetch /\ [][NextFetch]_vars

InitManager ==
  /\ LoadIdle
  /\ ArchiveIdle
  /\ UrlIdle
  /\ ResolveIdle
  /\ CopyIdle
  /\ LedgerIdle
  /\ PathIdle
  /\ ExtractIdle
  /\ FetchIdle
  /\ mGlobal \in BOOLEAN
  /\ tags = [r \in Repos |-> 1]
  /\ \/ cfgExists = FALSE /\ manifest = << >>
     \/ cfgExists = TRUE /\ manifest \in ManifestChoices
  /\ cache = << >>
  /\ installed = << >>
  /\ lock = << >>
  /\ cmds = 0
  /\ op = IdleOp
  /\ fetched = [k \in Keys |-> 0]
  /\ hist = [n \in Names |-> "none"]
  /\ tainted = {}

NextManager ==
  \/ \E ref \in Refs, force \in BOOLEAN, save \in BOOLEAN :
       CmdInstall(ref, force, save)
  \/ \E force \in BOOLEAN : CmdInstallAll(force)
  \/ \E name \in Names : CmdUpdate(name)
  \/ CmdUpdateAll
  \/ LoopNext
  \/ LoopEnd
  \/ I_ResolveFail
  \/ I_ResolveOk
  \/ I_Check
  \/ I_CacheGet
  \/ I_FetchOk
  \/ I_FetchFail
  \/ I_Remove
  \/ I_CopyOk
  \/ I_CopyFail
  \/ I_Record
  \/ \E name \in Names : Uninstall(name)
  \/ \E name \in LinkNames : Link(name)
  \/ \E name \in LinkNames : Unlink(name)
  \/ \E r \in Repos : PublishTag(r)

SpecManager == InitManager /\ [][NextManager]_vars

InitLedger ==
  /\ LoadIdle
  /\ ArchiveIdle
  /\ UrlIdle
  /\ ResolveIdle
  /\ CopyIdle
  /\ PathIdle
  /\ ExtractIdle
  /\ FetchIdle
  /\ MgrIdle
  /\ LedgerIdle

NextLedger ==
  \/ \E n \in LedgerNames, add \in BOOLEAN : LedgerMutate(n, add)
  \/ WriteOpen
  \/ WriteChunk
  \/ WriteClose
  \/ LedgerRead

SpecLedger == InitLedger /\ [][NextLedger]_vars

InitCopy ==
  /\ LoadIdle
  /\ ArchiveIdle
  /\ UrlIdle
  /\ ResolveIdle
  /\ PathIdle
  /\ ExtractIdle
  /\ FetchIdle
  /\ MgrIdle
  /\ LedgerIdle
  /\ cpSrc \in Trees
  /\ cpDest = NoTree
  /\ cpPrev = NoTree
  /\ cpPc = "idle"

NextCopy ==
  \/ CopyBegin
  \/ CopyRemove
  \/ CopyTo
  \/ CopyReturn
  \/ CopyOtherVersion

SpecCopy == InitCopy /\ [][NextCopy]_vars

InitResolve ==
  /\ LoadIdle
  /\ ArchiveIdle
  /\ UrlIdle
  /\ PathIdle
  /\ ExtractIdle
  /\ FetchIdle
  /\ MgrIdle
  /\ LedgerIdle
  /\ CopyIdle
  /\ rTags \in TagSets
  /\ rRange \in CaretRanges
  /\ rVersions = {}
  /\ rResult = NoMatch
  /\ rPc = "start"

NextResolve ==
  \/ ListTags
  \/ SelectVersion

SpecResolve == InitResolve /\ [][NextResolve]_vars

InitUrl ==
  /\ LoadIdle
  /\ ArchiveIdle
  /\ PathIdle
  /\ ExtractIdle
  /\ FetchIdle
  /\ MgrIdle
  /\ LedgerIdle
  /\ CopyIdle
  /\ ResolveIdle
  /\ uRef \in UrlRefs
  /\ uInfo = NoInfo
  /\ uSpec = NoSpec
  /\ uPc = "start"

NextUrl ==
  \/ UrlParse
  \/ UrlVersion

SpecUrl == InitUrl /\ [][NextUrl]_vars

InitArchive ==
  /\ LoadIdle
  /\ PathIdle
  /\ ExtractIdle
  /\ FetchIdle
  /\ MgrIdle
  /\ LedgerIdle
  /\ CopyIdle
  /\ ResolveIdle
  /\ UrlIdle
  /\ aName \in FileNames
  /\ aMode \in {"extract", "download"}
  /\ aFormat \in (IF aMode = "extract" THEN Formats \cup {NoFormat}
                  ELSE {NoFormat})
  /\ aDest \in BOOLEAN
  /\ aDest0 = aDest
  /\ aStarted = FALSE
  /\ aError = "none"
  /\ aPc = "start"

NextArchive ==
  \/ ArchiveDetect
  \/ ArchiveDownload
  \/ ArchiveEnsureDir
  \/ ArchiveExtract

SpecArchive == InitArchive /\ [][NextArchive]_vars

InitLoad ==
  /\ PathIdle
  /\ ExtractIdle
  /\ FetchIdle
  /\ MgrIdle
  /\ LedgerIdle
  /\ CopyIdle
  /\ ResolveIdle
  /\ UrlIdle
  /\ ArchiveIdle
  /\ gFile \in LockFiles
  /\ gName \in LedgerNames
  /\ gOp \in LoadOps
  /\ gData = Thrown
  /\ gOut = NoOutcome
  /\ gPc = "start"

NextLoad ==
  \/ LoadLedger
  \/ LoadConsult

SpecLoad == InitLoad /\ [][NextLoad]_vars


\* ------------------------------------------------------------------------
\* Properties of the path check and of the extraction
\* ------------------------------------------------------------------------
IsStrictDescendant(child, parent) ==
  /\ Len(child) > Len(parent)
  /\ SubSeq(child, 1, Len(parent)) = parent

\* where an entry name leads when followed segment by segment from installDir
ResolvedUnder(installDir, entryName) ==
  NormStack(Split(entryName), resolveSegs(installDir), FALSE)

HasDotDotSegment(entryName) ==
  \E i \in 1..Len(Split(entryName)) : Split(entryName)[i] = DotDot

NameIsUnsafe(installDir, entryName) ==
  \/ entryName = <<>>
  \/ \A i \in 1..Len(entryName) : entryName[i] = " "
  \/ Head(entryName) = "/"
  \/ normalize(entryName) = Dot
  \/ HasDotDotSegment(entryName)
  \/ ~IsStrictDescendant(ResolvedUnder(installDir, entryName),
                         resolveSegs(installDir))

\* C3: isPathSafe returns false exactly when the name is empty or blank, is
\* absolute, normalizes to '.', has a '..' segment or resolves to a path
\* that is not a strict descendant of the resolved installDir
C3_ExactlyUnsafe ==
  pResult # "unset" =>
    (pResult = "unsafe" <=> NameIsUnsafe(pDir, pEntry))

\* C1: whatever the archive, the extraction creates or writes nothing but
\* installDir and strict descendants of installDir
C1_WritesOnlyInside ==
  \A p \in DOMAIN disk :
    \/ p \in DOMAIN InitialDisk /\ disk[p] = InitialDisk[p]
    \/ p \in Prefixes(resolveSegs(xDir))
    \/ IsStrictDescendant(p, resolveSegs(xDir))

EntryIsSafeFile(i) ==
  /\ ~Refused(xImpl, xDir, xArchive[i].name)
  /\ xArchive[i].type = "file"

EntrySegs(i) == resolveSegs(EntryPath(xImpl, xDir, xArchive[i].name))

\* the write of the current entry cannot succeed on this disk
CurWriteFails ==
  \/ /\ CurEntry.type = "directory"
     /\ ~existsSync(disk, CurPath)
     /\ ~MkdirOk(disk, CurPath)
  \/ /\ CurEntry.type = "file"
     /\ \/ ~existsSync(disk, dirname(CurPath)) /\ ~MkdirOk(disk, dirname(CurPath))
        \/ ~CanOpen(disk, CurPath)

SafeFilesWritten ==
  \A i \in 1..Len(xArchive) :
    EntryIsSafeFile(i) =>
      /\ EntrySegs(i) \in DOMAIN disk
      /\ disk[EntrySegs(i)].kind = "file"
      /\ \E j \in i..Len(xArchive) :
           /\ EntryIsSafeFile(j)
           /\ EntrySegs(j) = EntrySegs(i)
           /\ disk[EntrySegs(i)].data = j

MixesUnsafeAndSafe ==
  /\ \E i \in 1..Len(xArchive) : Refused(xImpl, xDir, xArchive[i].name)
  /\ \E i \in 1..Len(xArchive) : EntryIsSafeFile(i)

Expected(layout) == ArchiveTree(IF layout = "rooted" THEN "flat" ELSE layout)

DestTree ==
  [q \in {Rest(r, Dest) : r \in {t \in DOMAIN cfs : IsUnder(t, Dest)}} |->
     cfs[Dest \o q]]

DestComplete == Dest \in DOMAIN cfs /\ DestTree = Expected(fLayout)

AllFetchesOver == \A p \in Procs : fpc[p] \in {"returned", "thrown"}

\* C4: after two concurrent fetches of one uncached key, of which at least
\* one returned, the one cache entry of the key holds the complete content
C4_OneCompleteEntry ==
  (AllFetchesOver /\ \E p \in Procs : fpc[p] = "returned") => DestComplete

\* C5: at every point of a fetch the destination path of the entry either
\* does not exist or holds the complete content
C5_AbsentOrComplete == Dest \in DOMAIN cfs => DestComplete


\* ------------------------------------------------------------------------
\* SkillManager properties
\* ------------------------------------------------------------------------
StepOrder == <<"resolve", "cache", "copy", "lock">>

\* the steps taken so far are the first steps of the order
InOrder(t) == Len(t) <= Len(StepOrder) /\ \A i \in 1..Len(t) : t[i] = StepOrder[i]

\* a lock write happens inside an install only after resolve, cache and
\* copy, with the copied directory in place
LockWriteAfterCopy ==
  (lock' # lock /\ op.pc # "idle") =>
    /\ op.trail = <<"resolve", "cache", "copy">>
    /\ op.name \in DOMAIN installed
    /\ installed[op.name] = DirOf(op.ref.src, op.version)

\* C6: install takes its steps in the order resolve, cache reuse or fetch,
\* copy to the install path, lock write, and the lock is never written
\* unless the copy has completed successfully
C6_StepOrder == [](InOrder(op.trail)) /\ [][LockWriteAfterCopy]_vars

\* an install inside installAll has fetched, copied and written the lock
C6_Witness ==
  /\ op.kind = "installAll"
  /\ op.pc = "loop"
  /\ ~op.hit
  /\ op.trail = StepOrder
  /\ op.name \in DOMAIN lock

\* C7: in installAll an entry that fails leaves the installed directory and
\* the lock entry of every entry installed before it as they were, and the
\* loop still reaches every entry
C7_InstallAllIndependent ==
  (op.kind = "installAll" /\ op.pc = "loop") =>
    /\ \A n \in DOMAIN op.done : Snapshot(installed, lock, n) = op.done[n]
    /\ op.queue = << >> => op.attempted = op.total

\* the lock entry of the name being installed holds the commit just resolved
LockMatches ==
  /\ op.name \in DOMAIN lock
  /\ lock[op.name].commit = CommitOf(op.ref.src, op.version)

\* the install returns at the check and nothing is touched
ReturnsUntouched ==
  /\ op'.pc \in {"idle", "loop"}
  /\ UNCHANGED <<installed, lock, manifest, cache, fetched>>

\* C8 as stated: an install whose resolved commit matches the lock entry of
\* the name fetches nothing, leaves the installed directory alone and does
\* not rewrite the lock
C8_SecondInstallNoOp ==
  [][(op.pc = "check" /\ LockMatches) => ReturnsUntouched]_vars

\* C8 amended: the same, for an install that is not forced and finds the
\* install path present
C8_UnforcedInstallNoOp ==
  [][(op.pc = "check" /\ LockMatches /\ ~op.force
        /\ op.name \in DOMAIN installed) => ReturnsUntouched]_vars

\* an unforced install inside installAll returned right after resolving,
\* the lock entry matching and the directory present
C8_Witness ==
  /\ op.kind = "installAll"
  /\ op.pc = "loop"
  /\ ~op.force
  /\ op.trail = <<"resolve">>
  /\ LockMatches
  /\ op.name \in DOMAIN installed
  /\ installed[op.name].kind = "dir"

\* C9: a key that is in the cache is never fetched again and its entry is
\* never modified, whatever install runs (forced and update included);
\* content of another commit goes to another key
C9_CachedKeyReused ==
  [][\A k \in DOMAIN cache :
       /\ k \in DOMAIN cache'
       /\ cache'[k] = cache[k]
       /\ fetched'[k] = fetched[k]]_vars

\* a forced install found its key cached, fetched once before, and went on
\* to copy from it
C9_Witness ==
  /\ op.force
  /\ op.hit
  /\ op.pc = "record"
  /\ KeyOf(op.ref.src, op.version) \in DOMAIN cache
  /\ fetched[KeyOf(op.ref.src, op.version)] = 1

\* C10: in project mode, for a name touched by installs and uninstalls only,
\* the lock has an entry exactly when the last successful operation on the
\* name was an install
C10_LockIffInstalled ==
  ~mGlobal =>
    \A n \in Names \ tainted :
      (n \in DOMAIN lock) <=> (hist[n] = "install")

\* one name installed and then uninstalled, another installed
C10_Witness ==
  /\ ~mGlobal
  /\ tainted = {}
  /\ hist["tool"] = "uninstall"
  /\ "tool" \notin DOMAIN lock
  /\ hist["fmt"] = "install"
  /\ "fmt" \in DOMAIN lock


\* ------------------------------------------------------------------------
\* Properties of the lock file
\* ------------------------------------------------------------------------
\* C11: a concurrent reader of the lock file reads the complete text of a
\* ledger (the previous one or the new one), never a truncated or partly
\* written file
C11_ReaderSeesCompleteLedger ==
  lfSeen.exists => \E l \in Ledgers : lfSeen.text = Stringify(l)


\* ------------------------------------------------------------------------
\* Properties of a failing fetch
\* ------------------------------------------------------------------------
NoFetchRunning == \A p \in Procs : fpc[p] \in {"idle", "returned", "thrown"}

\* C12: once no download is running, the '<filename>.download' file does
\* not exist: a failed downloadFile has removed its partial file and
\* downloadAndExtract has removed its temporary archive
C12_NoDownloadLeftover == NoFetchRunning => Arc \notin DOMAIN cfs

\* C13: once every fetch that ran has thrown, neither the
\* '<destDir>.extract-temp' directory nor a partly populated destDir remains
C13_NoExtractLeftover ==
  (/\ \A p \in Procs : fpc[p] \in {"idle", "thrown"}
   /\ \E p \in Procs : fpc[p] = "thrown")
    => /\ Temp \notin DOMAIN cfs
       /\ Dest \in DOMAIN cfs => DestComplete

\* C14: the timeout is armed for the whole of a download, while fetch() is
\* pending and while the body is streamed
C14_TimeoutCoversDownload ==
  \A p \in Procs : fpc[p] \in {"fetch", "stream"} => fTimer[p] = "armed"


\* ------------------------------------------------------------------------
\* SkillManager properties: failures and the lock entry
\* ------------------------------------------------------------------------
\* C15: when the reference does not parse or does not resolve, install
\* ends at once and the install directory, the cache, the lock and the
\* manifest are as they were before the call
C15_ResolveFailureChangesNothing ==
  [][(op.pc = "resolve" /\ (~CanResolve(op.ref, tags) \/ op'.pc # "check"))
       => /\ op'.pc \in {"idle", "loop"}
          /\ UNCHANGED <<installed, cache, fetched, lock, manifest>>]_vars

\* an entry of a loop failed to resolve while a skill is installed and locked
C15_Witness ==
  /\ Looping(op)
  /\ op.pc = "loop"
  /\ op.attempted >= 1
  /\ op.name = ""
  /\ installed # << >>
  /\ lock # << >>

\* C16: after installAll, every entry (declaredName, reference) whose
\* install returned has its lock entry under declaredName
C16_LockKeyedByDeclaredName ==
  (op.kind = "installAll" /\ op.pc = "loop") =>
    \A d \in op.okDecl :
      /\ d \in DOMAIN lock
      /\ d \in DOMAIN manifest => lock[d].source = manifest[d].src

\* the requested version an entry records: the entry holds one version, its
\* `version` field
RequestedIn(e) == ExactSpec(e.version)

\* C17: the lock entry a successful install writes records the requested
\* version as declared in the reference, with the resolved tag, the
\* canonical URL and the commit
C17_LockRecordsRequestedVersion ==
  [][(op.pc = "record" /\ ~mGlobal) =>
       /\ op.name \in DOMAIN lock'
       /\ RequestedIn(lock'[op.name]) = op.ref.spec
       /\ lock'[op.name].version = op.version
       /\ lock'[op.name].resolved = RepoOf(op.ref.src)
       /\ lock'[op.name].commit = CommitOf(op.ref.src, op.version)]_vars


\* ------------------------------------------------------------------------
\* Extraction of a well-formed archive
\* ------------------------------------------------------------------------
\* where entry i of the archive belongs, relative to the installation
\* directory
RelPath(i) == Split(xArchive[i].name)

FileEntries == {i \in 1..Len(xArchive) : xArchive[i].type = "file"}

TreeEntries ==
  {i \in 1..Len(xArchive) : xArchive[i].type \in {"file", "directory"}}

AllSafe == \A i \in 1..Len(xArchive) : isPathSafe(xDir, xArchive[i].name)

\* no path twice, and no file entry above another entry
WellFormed ==
  \A i, j \in TreeEntries :
    i # j =>
      /\ RelPath(i) # RelPath(j)
      /\ i \in FileEntries => ~IsUnder(RelPath(j), RelPath(i))

\* the files under the installation directory: relative path and content
FilesUnder(d, base) ==
  {<<Rest(q, base), d[q].data>> :
     q \in {r \in DOMAIN d : IsUnder(r, base) /\ d[r].kind = "file"}}

\* C18: the extraction of a well-formed archive of safe names ends only
\* by resolving, and then the files under the installation directory are exactly the
\* archive's file entries with their content, parents included, and
\* nothing outside the directory has changed
C18_ReproducesArchiveTree ==
  (xStatus \in {"resolved", "rejected", "crashed"} /\ WellFormed /\ AllSafe) =>
    /\ xStatus = "resolved"
    /\ FilesUnder(disk, resolveSegs(xDir)) =
         {<<RelPath(i), i>> : i \in FileEntries}
    /\ \A q \in DOMAIN disk :
         \/ q \in DOMAIN InitialDisk /\ disk[q] = InitialDisk[q]
         \/ q = resolveSegs(xDir)
         \/ IsUnder(q, resolveSegs(xDir))

\* a nested file extracted from an archive that has no directory entries
C18_Witness ==
  /\ xStatus = "resolved"
  /\ AllSafe
  /\ WellFormed
  /\ TreeEntries = FileEntries
  /\ \E i \in FileEntries :
       /\ Len(RelPath(i)) = 2
       /\ disk[resolveSegs(xDir) \o RelPath(i)] = FileNode(i)


\* ------------------------------------------------------------------------
\* The copy into the install path
\* ------------------------------------------------------------------------
\* the part of a tree under no excluded name
Visible(t) ==
  [q \in {r \in DOMAIN t : \A i \in 1..Len(r) : r[i] \notin Exclude} |-> t[q]]

\* C19: when install, a forced reinstall or update has copied the cache
\* entry, the skill directory holds exactly the entry's files with their
\* content, the excluded names apart, and nothing of what was there before
C19_CopyReproducesEntry ==
  /\ cpPc # "thrown"
  /\ cpPc = "done" => cpDest = Visible(cpSrc)

\* a reinstall over a directory that held a file the new entry lacks, from
\* an entry with an excluded name and a nested file
C19_Witness ==
  /\ cpPc = "done"
  /\ \E q \in DOMAIN cpPrev : q \notin DOMAIN cpSrc
  /\ <<".git">> \in DOMAIN cpSrc
  /\ <<"d", "f">> \in DOMAIN cpDest


\* ------------------------------------------------------------------------
\* Range resolution
\* ------------------------------------------------------------------------
\* major.minor.patch as one number
Num(v) == v[1] * 100 + v[2] * 10 + v[3]

\* the stable tags from r up to the next major version
Admitted(ts, r) ==
  {t \in ts : t.ok /\ ~t.pre /\ Num(t.v) >= Num(r) /\ Num(t.v) < (r[1] + 1) * 100}

\* C20: a range resolves to the highest tag among those that parse as
\* semantic versions, are no prereleases and lie in the range; ^2.0.0
\* admits exactly the versions >=2.0.0 and <3.0.0; ^1.0.0 against
\* {1.0.0, 1.2.0, 2.0.0, 1.3.0-beta} yields 1.2.0
C20_RangePicksHighestStable ==
  rPc = "resolved" =>
    /\ Admitted(rTags, rRange) = {} => rResult = NoMatch
    /\ Admitted(rTags, rRange) # {} =>
         /\ rResult \in Admitted(rTags, rRange)
         /\ \A t \in Admitted(rTags, rRange) : Num(t.v) <= Num(rResult.v)
    /\ (/\ rRange = <<1, 0, 0>>
        /\ rTags = {Ver(1, 0, 0), Ver(1, 2, 0), Ver(2, 0, 0), Pre(1, 3, 0)})
         => rResult = Ver(1, 2, 0)

\* ^1.0.0 resolved against {1.0.0, 1.2.0, 2.0.0, 1.3.0-beta}
C20_Witness ==
  /\ rPc = "resolved"
  /\ rRange = <<1, 0, 0>>
  /\ rTags = {Ver(1, 0, 0), Ver(1, 2, 0), Ver(2, 0, 0), Pre(1, 3, 0)}
  /\ rResult = Ver(1, 2, 0)


\* ------------------------------------------------------------------------
\* SkillManager properties: update
\* ------------------------------------------------------------------------
Updating == op.kind \in {"update", "updateAll"} /\ op.pc # "idle"

\* the version a reference stands for while the remote's tags are t
Admits(ref, t) ==
  IF ref.spec.type = "exact" THEN ref.spec.value ELSE t[RepoOf(ref.src)]

HasSuffix(r) == Len(r) >= 2 /\ r[Len(r) - 1] = "@"

\* the version token in the file name of r, if there is one
NameVersions(r) ==
  {r[i] : i \in {j \in 3..Len(r) : r[j] \in VersionTokens /\ r[j - 1] \in SepTokens}}

\* C22: the version of an archive URL reference is the explicit @version
\* suffix when there is one, else the version in the file name, else the
\* literal latest as an exact version
C22_ExplicitSuffixWins ==
  uPc = "done" =>
    /\ HasSuffix(uRef) => uSpec.value = uRef[Len(uRef)]
    /\ (~HasSuffix(uRef) /\ NameVersions(uRef) # {}) =>
         /\ uSpec.type = "exact"
         /\ uSpec.value \in NameVersions(uRef)
    /\ (~HasSuffix(uRef) /\ NameVersions(uRef) = {}) =>
         uSpec = [type |-> "exact", value |-> "latest"]

\* skill-v1.0.0.tar.gz@v2.0.0 resolved to v2.0.0
C22_Witness ==
  /\ uPc = "done"
  /\ uRef = <<UrlBase, "skill", "-", "v1.0.0", ".tar.gz", "@", "v2.0.0">>
  /\ uSpec = [type |-> "exact", value |-> "v2.0.0"]


\* ------------------------------------------------------------------------
\* Unknown archive formats
\* ------------------------------------------------------------------------
UpperOf(c) ==
  CASE c = "a" -> "A"
    [] c = "g" -> "G"
    [] c = "i" -> "I"
    [] c = "p" -> "P"
    [] c = "r" -> "R"
    [] c = "t" -> "T"
    [] c = "z" -> "Z"
    [] OTHER -> c

\* the name ends in one of .tar.gz, .tgz, .tar, .zip, in any case
HasKnownExtension(n) ==
  \E e \in Formats :
    /\ Len(n) >= Len(e)
    /\ \A i \in 1..Len(e) :
         n[Len(n) - Len(e) + i] \in {e[i], UpperOf(e[i])}

\* C23: with no format supplied and none in the file name, the call fails
\* with the unknown-format error, the destination directory is as it was
\* and no download was started; in every other case that error is not raised
C23_UnknownFormatFailsFirst ==
  aPc \notin {"idle", "start"} =>
    IF aFormat = NoFormat /\ ~HasKnownExtension(aName)
    THEN /\ aPc = "thrown"
         /\ aError = "UnableToDetect"
         /\ aDest = aDest0
         /\ ~aStarted
    ELSE aError # "UnableToDetect"

\* extractArchive and downloadAndExtract have both refused a name with no
\* known extension, with no destination directory around
C23_Witness ==
  /\ aPc = "thrown"
  /\ aError = "UnableToDetect"
  /\ aFormat = NoFormat
  /\ aName = <<"a", ".", "g", "z">>
  /\ ~aDest


\* ------------------------------------------------------------------------
\* A missing or malformed skills.lock
\* ------------------------------------------------------------------------
\* the text is no JSON object of skill names
Malformed(t) ==
  \/ Len(t) < 2
  \/ Head(t) # "{"
  \/ Last(t) # "}"
  \/ \E i \in 2..(Len(t) - 1) : t[i] \in {"{", "}"}

C25_OtherKindsSkipped ==
  [][(Running /\ CurEntry.type \notin {"file", "directory"}) =>
       /\ disk' = disk
       /\ xIdx' = xIdx + 1
       /\ xStatus' = "running"]_vars

\* a symbolic link entry with a safe name was passed over and a later file
\* entry was written
C25_Witness ==
  /\ xStatus = "resolved"
  /\ \E i, j \in 1..Len(xArchive) :
       /\ i < j
       /\ xArchive[i].type = "symlink"
       /\ ~Refused(xImpl, xDir, xArchive[i].name)
       /\ resolveSegs(EntryPath(xImpl, xDir, xArchive[i].name)) \notin DOMAIN disk
       /\ xArchive[j].type = "file"
       /\ resolveSegs(EntryPath(xImpl, xDir, xArchive[j].name)) \in DOMAIN disk


\* the paths whose node differs between two disks
Changed(d, e) ==
  {q \in DOMAIN d \cup DOMAIN e :
     q \notin DOMAIN d \/ q \notin DOMAIN e \/ d[q] # e[q]}

\* one step of an extraction that keeps to the archive's order
OneAtATime ==
  /\ xIdx' \in {xIdx, xIdx + 1}
  /\ (xStatus # "idle" /\ disk' # disk) =>
       /\ xIdx \in 1..Len(xArchive)
       /\ xImpl = "guarded" => isPathSafe(xDir, CurEntry.name)
       /\ Changed(disk, disk') \subseteq Prefixes(resolveSegs(CurPath))
  /\ (/\ xIdx \in 1..Len(xArchive)
      /\ xIdx' # xIdx
      /\ EntryIsSafeFile(xIdx)) =>
       /\ xStatus = "writing"
       /\ disk'[EntrySegs(xIdx)] = FileNode(xIdx)
  /\ (xStatus # "resolved" /\ xStatus' = "resolved") =>
       /\ xStatus = "running"
       /\ xIdx > Len(xArchive)
       /\ SafeFilesWritten

LeftPending == xStatus = "crashed"

\* C28: every call settles by resolving or by rejecting; it is never left
\* pending with entries unprocessed
C28_NeverLeftPending == ~LeftPending

\* C26: in global mode no step of install or uninstall changes the
\* project's skills.lock or skills.json (or creates a skills.json); the
\* install directory and the cache are all that change
C26_GlobalLeavesProjectFiles ==
  [][mGlobal =>
       /\ lock' = lock
       /\ manifest' = manifest
       /\ cfgExists' = cfgExists]_vars

\* a global install of a skill that skills.json declares under the same
\* name, followed by its global uninstall
C26_Witness ==
  /\ mGlobal
  /\ op.pc = "idle"
  /\ hist["tool"] = "uninstall"
  /\ "tool" \notin DOMAIN installed
  /\ "tool" \in DOMAIN manifest
  /\ cache # << >>
  /\ lock = << >>

\* C29: in project mode, between operations, every name with an entry in
\* the lock has a directory or a link in the install directory
C29_LockedNamesAreInstalled ==
  (~mGlobal /\ op.pc = "idle") => DOMAIN lock \subseteq DOMAIN installed

\* the step in which install returns a skill: the already-installed return
\* or the return after the lock is written
InstallReturns ==
  \/ op.pc = "record"
  \/ op.pc = "check" /\ op.name \in DOMAIN installed /\ ~op.force

\* C30: when install(ref) returns in project mode, the lock entry under the
\* skill's name has ref's source and the version ref resolved to in this
\* call
C30_LockDescribesInstalledRef ==
  [][(~mGlobal /\ InstallReturns) =>
       /\ op.name \in DOMAIN lock'
       /\ lock'[op.name].source = op.ref.src
       /\ lock'[op.name].version = op.version]_vars

====
